---------------------------- MODULE Spec2Model ----------------------------
(***************************************************************************)
(* Model of the TMDB metadata synchroniser (scripts/download_tmdb_images.py*)
(* and scripts/utils/*.py).                                                *)
(*                                                                         *)
(* Time is counted in whole hours since the epoch.  A file is a record     *)
(* with an `exists' flag and a modification time.  Each component of the   *)
(* program has its own specification over its own variables:               *)
(*   SpecRefresh  utils/file_utils.py   should_refresh_metadata            *)
(*   SpecConfig   utils/file_utils.py   load_tmdb_config_file and          *)
(*                                      update_tmdb_config                 *)
(*   SpecRetry    utils/tmdb_utils.py   make_tmdb_api_request              *)
(*   Spec         download_tmdb_images.py   main, process_movies,          *)
(*                                      process_shows                      *)
(***************************************************************************)
EXTENDS Integers, Sequences, FiniteSets, TLC

(***************************************************************************)
(* Bounds of the model.                                                    *)
(***************************************************************************)
\* Largest timestamp (hours) of the refresh-policy inputs.
MaxTime == 27

\* Remote IDs a name may resolve to: 1..MaxId.
MaxId == 2

\* Largest number of seconds a Retry-After header asks for.
MaxRetryAfter == 2

\* Largest episode_count of a season.
MaxEpisodes == 1

\* Versions of an entity's remote record (its image paths differ by version).
MaxVersion == 2

\* Hours that may pass between the end of a run and the start of the next.
MaxGap == 1

\* Remote requests of an execution that may come back empty-handed.
MaxMishaps == 1

\* Requests of one episode fetch that are counted; later ones are not.
MaxRequests == 8

\* Pieces in which a serialised document reaches the disk.
DocLen == 3

\* Calls of the download function on the one destination path.
MaxDownloads == 2

\* Chunks in which an image is written by download_image.
ImageChunks == 2

\* Members of a credits response.
MaxCast == 3

\* Results of the search without the year.
MaxResults == 2

(***************************************************************************)
(* Program constants.                                                      *)
(***************************************************************************)
\* timedelta(days=1), in hours.
HoursPerDay == 24

\* make_tmdb_api_request's default max_retries.
max_retries == 5

\* get_tmdb_episode_data's default max_retries.
episode_max_retries == 3

\* get_episode_thumbnail_url gives up when retry_count exceeds this.
thumbnail_retry_limit == 5

VARIABLES
    \* ---- refresh policy (should_refresh_metadata) ----
    metadata_file,      \* [exists, mtime] of the metadata document
    tmdb_config_path,   \* [exists, mtime] of the config document
    rfNow,              \* the wall clock read by datetime.now()
    rfPc,               \* "call" before the call, "done" after it returned
    need_refresh,       \* the function's local, returned at "done"
    \* ---- config store (load_tmdb_config_file, update_tmdb_config) ----
    cfgDisk,            \* the tmdb.config file: [kind, doc]
    tmdb_config,        \* the caller's dict, as load_tmdb_config_file gave it
    cfgLast,            \* what the last update_tmdb_config call logged
    \* ---- remote client (make_tmdb_api_request) ----
    retries,            \* the loop counter
    backoff_factor,     \* the current backoff, in seconds
    rqPc,               \* "loop", "returned" or "raised"
    rqResult,           \* "None" or "data", once returned
    rqLog,              \* how each HTTP request of the call ended, in order
    rqSleeps,           \* the asyncio.sleep durations of the call, in order
    rqHeaders,          \* the Retry-After header of the response before each sleep
    \* ---- orchestrator (download_tmdb_images.py) ----
    clock,              \* the wall clock, epoch hours
    run,                \* 1 or 2: which run of the script this is
    pc,                 \* where the script is
    fs,                 \* path -> [exists, mtime, gen]; gen counts the writes
    configs,            \* entity -> its tmdb.config file, [kind, doc]
    docs,               \* entity -> the document in its metadata.json
    movie_data,         \* process_movies' local
    existing_metadata,  \* process_movies' local
    show_data,          \* process_shows' local
    show_need_refresh,  \* process_shows' local need_refresh
    image_index,        \* position of the image loop, 1..3
    episode_number,     \* position of the episode loop
    remoteCalled,       \* this run has issued a remote request
    fetches,            \* get_tmdb_data calls made for the show in this run
    gate,               \* the branch lines 297-309 took for the show in this run
    mishaps,            \* how many requests came back empty-handed so far
    \* ---- episode fetches (get_tmdb_episode_data, get_episode_thumbnail_url) ----
    epFn,               \* which of the two functions was called
    epService,          \* how the service answers the call's requests
    retry_count,        \* the function's retry_count
    epRequests,         \* requests.get calls made, counted up to MaxRequests
    epSleep,            \* seconds of the time.sleep in progress
    epPc,               \* "request", "sleep" or "returned"
    epResult,           \* "pending", then what the call returned
    \* ---- entity fetch (fetch_tmdb_media_details, get_tmdb_data) ----
    ftFn,               \* which of the two functions was called
    ftHasId,            \* a tmdb_id was passed in
    media_type,         \* "tv" or "movie"
    ftPc,               \* the request the call is about to make, or how it ended
    ftRequested,        \* the resources requested so far
    ftFailed,           \* the resources whose request got nothing
    media_details,      \* field -> what the record holds for it
    ftResult,           \* "pending", then "record" or "None"
    \* ---- metadata write (json.dump in process_shows/process_movies, write_json_file) ----
    mwFn,               \* "json.dump" (the script) or "write_json_file"
    mwOld,              \* metadata.json before the call: [exists, content]
    mwFetched,          \* what the fetch returned: "pending", "None", "record" or "error_body"
    mwData,             \* the version of the document to write, 0 for none
    mwFile,             \* metadata.json now: [exists, content]
    mwPc,               \* "fetch", "open", "write", "done" or "killed"
    \* ---- image download (download_image, download_image_file) ----
    dlFn,               \* "download_image" or "download_image_file"
    dlFiles,            \* path -> [exists, version, len] of the image and of its .blurhash
    dlPc,               \* where the current call is; "idle" between calls
    dlForce,            \* the current call's force_download
    dlVersion,          \* the version of the image behind the current call's URL
    dlCalls,            \* calls made so far
    dlStatus,           \* how the current call's request ended; "none" before it
    dlRequests,         \* HTTP requests made so far
    dlHashGone,         \* the current call found no .blurhash or removed it
    dlThreads,          \* call -> [pc, read] of the hash computation it started
    \* ---- image pass (image loops of process_shows and process_movies) ----
    imFn,               \* process_shows or process_movies
    imOverride,         \* tmdb_config's override_poster: {} or {path}
    imRemote,           \* poster_path of the fetched or loaded record: {} or {path}
    imExisting,         \* poster_path of the metadata.json found on disk: {} or {path}
    imRefresh,          \* need_refresh / refresh_metadata
    imFiles,            \* file -> [exists, from]: the URL its bytes came from
    image_url,          \* the local image_url: {} while unbound
    imPc,               \* loop, done or crashed
    imCall,             \* the download_image call of the pass: {} or {[url, path, force]}
    \* ---- cast details (fetch_tmdb_cast_details for a TV show) ----
    credits_data,       \* the 'cast' list of the aggregate_credits response
    castHasCast,        \* credits_data is truthy and has the key 'cast'
    castPc,             \* call, then returned
    castResult,         \* what the call returned: [none, cast, recurring_cast]
    \* ---- override merge of process_shows / process_movies ----
    mgFn,               \* the function that refreshes the entity
    mgMetadata,         \* the value of 'metadata' in tmdb.config
    mgFetched,          \* what get_tmdb_data returned
    mgData,             \* the local show_data / movie_data
    mgWritten,          \* metadata.json
    mgPc,               \* position in the refresh
    \* ---- name resolution of get_tmdb_data / fetch_tmdb_media_details ----
    rsFn,               \* the function resolving the name
    rsType,             \* 'tv' or 'movie'
    rsYear,             \* the (YYYY) of the name, {} without one
    rsFull,             \* results of the search by the full name
    rsStripped,         \* results of the search without the year
    rsPc,               \* position in the resolution
    rsId                \* the tmdb_id resolved, {} while there is none

refreshVars == <<metadata_file, tmdb_config_path, rfNow, rfPc, need_refresh>>

configVars == <<cfgDisk, tmdb_config, cfgLast>>

retryVars == <<retries, backoff_factor, rqPc, rqResult, rqLog, rqSleeps,
               rqHeaders>>

orchVars ==
    <<clock, run, pc, fs, configs, docs, movie_data, existing_metadata,
      show_data, show_need_refresh, image_index, episode_number,
      remoteCalled, fetches, gate, mishaps>>

episodeVars == <<epFn, epService, retry_count, epRequests, epSleep, epPc, epResult>>

fetchVars == <<ftFn, ftHasId, media_type, ftPc, ftRequested, ftFailed, media_details, ftResult>>

writeVars == <<mwFn, mwOld, mwFetched, mwData, mwFile, mwPc>>

downloadVars == <<dlFn, dlFiles, dlPc, dlForce, dlVersion, dlCalls, dlStatus, dlRequests, dlHashGone, dlThreads>>

imageVars == <<imFn, imOverride, imRemote, imExisting, imRefresh, imFiles, image_url, imPc, imCall>>

castVars == <<credits_data, castHasCast, castPc, castResult>>

mergeVars == <<mgFn, mgMetadata, mgFetched, mgData, mgWritten, mgPc>>

resolveVars == <<rsFn, rsType, rsYear, rsFull, rsStripped, rsPc, rsId>>

vars == <<refreshVars, configVars, retryVars, orchVars, episodeVars, fetchVars, writeVars, downloadVars, imageVars, castVars, mergeVars, resolveVars>>

\* What each component leaves alone.
notRefreshVars == <<configVars, retryVars, orchVars, episodeVars, fetchVars, writeVars, downloadVars, imageVars, castVars, mergeVars, resolveVars>>

notConfigVars == <<refreshVars, retryVars, orchVars, episodeVars, fetchVars, writeVars, downloadVars, imageVars, castVars, mergeVars, resolveVars>>

notRetryVars == <<refreshVars, configVars, orchVars, episodeVars, fetchVars, writeVars, downloadVars, imageVars, castVars, mergeVars, resolveVars>>

notOrchVars == <<refreshVars, configVars, retryVars, episodeVars, fetchVars, writeVars, downloadVars, imageVars, castVars, mergeVars, resolveVars>>

notResolveVars == <<refreshVars, configVars, retryVars, orchVars, episodeVars, fetchVars, writeVars, downloadVars, imageVars, castVars, mergeVars>>

notMergeVars == <<refreshVars, configVars, retryVars, orchVars, episodeVars, fetchVars, writeVars, downloadVars, imageVars, castVars, resolveVars>>

notCastVars == <<refreshVars, configVars, retryVars, orchVars, episodeVars, fetchVars, writeVars, downloadVars, imageVars, mergeVars, resolveVars>>

notImageVars == <<refreshVars, configVars, retryVars, orchVars, episodeVars, fetchVars, writeVars, downloadVars, castVars, mergeVars, resolveVars>>

notDownloadVars == <<refreshVars, configVars, retryVars, orchVars, episodeVars, fetchVars, writeVars, imageVars, castVars, mergeVars, resolveVars>>

notWriteVars == <<refreshVars, configVars, retryVars, orchVars, episodeVars, fetchVars, downloadVars, imageVars, castVars, mergeVars, resolveVars>>

notFetchVars == <<refreshVars, configVars, retryVars, orchVars, episodeVars, writeVars, downloadVars, imageVars, castVars, mergeVars, resolveVars>>

notEpisodeVars == <<refreshVars, configVars, retryVars, orchVars, fetchVars, writeVars, downloadVars, imageVars, castVars, mergeVars, resolveVars>>

(***************************************************************************)
(* Time.                                                                   *)
(***************************************************************************)
\* The local zone's offset from UTC, in hours: datetime.fromtimestamp() and
\* datetime.now() both yield naive local datetimes.  The zone is taken to
\* have one fixed offset (no daylight-saving change between two readings).
UtcOffset == 2

\* datetime.fromtimestamp(ts): epoch hours -> naive local datetime.
fromtimestamp(ts) == ts + UtcOffset

\* datetime.now() when the wall clock reads `now' epoch hours.
datetime_now(now) == now + UtcOffset

\* timedelta(days=d)
timedelta_days(d) == d * HoursPerDay

(***************************************************************************)
(* Refresh policy: utils/file_utils.py should_refresh_metadata.            *)
(***************************************************************************)
\* A file that does not exist has no modification time.
FileStates(T) ==
    {[exists |-> FALSE, mtime |-> 0]} \cup
    {[exists |-> TRUE, mtime |-> t] : t \in T}

\* Mutant of should_refresh_metadata: the TTL test uses > instead of >=
\* (the metadata is kept while its age is <= one day).
should_refresh_metadata_ttl_strict(meta, cfg, now) ==
    IF meta.exists
    THEN LET metadata_last_modified == fromtimestamp(meta.mtime)
             config_last_modified == fromtimestamp(cfg.mtime)
         IN  IF /\ datetime_now(now) - metadata_last_modified
                        <= timedelta_days(1)
                /\ \/ ~cfg.exists
                   \/ config_last_modified <= metadata_last_modified
             THEN FALSE
             ELSE TRUE
    ELSE TRUE

\* Mutant of should_refresh_metadata: the config's modification time is
\* not consulted.
should_refresh_metadata_no_config(meta, cfg, now) ==
    IF meta.exists
    THEN LET metadata_last_modified == fromtimestamp(meta.mtime)
         IN  IF datetime_now(now) - metadata_last_modified
                    < timedelta_days(1)
             THEN FALSE
             ELSE TRUE
    ELSE TRUE

\* Mutant of should_refresh_metadata: need_refresh starts False, so a
\* missing metadata file yields False.
should_refresh_metadata_default_false(meta, cfg, now) ==
    IF meta.exists
    THEN LET metadata_last_modified == fromtimestamp(meta.mtime)
             config_last_modified == fromtimestamp(cfg.mtime)
         IN  IF /\ datetime_now(now) - metadata_last_modified
                        < timedelta_days(1)
                /\ \/ ~cfg.exists
                   \/ config_last_modified <= metadata_last_modified
             THEN FALSE
             ELSE TRUE
    ELSE FALSE

\* Mutant of should_refresh_metadata: a config whose modification time
\* equals the metadata's also triggers a refresh (< instead of <=).
should_refresh_metadata_equal_refreshes(meta, cfg, now) ==
    IF meta.exists
    THEN LET metadata_last_modified == fromtimestamp(meta.mtime)
             config_last_modified == fromtimestamp(cfg.mtime)
         IN  IF /\ datetime_now(now) - metadata_last_modified
                        < timedelta_days(1)
                /\ \/ ~cfg.exists
                   \/ config_last_modified < metadata_last_modified
             THEN FALSE
             ELSE TRUE
    ELSE TRUE

\* should_refresh_metadata(metadata_file, tmdb_config_path): need_refresh
\* starts True and is cleared only when the metadata exists, is younger
\* than one day, and the config is absent or not newer than it.
\* config_last_modified is None exactly when the config file is absent
\* (`not config_last_modified' holds only for None: a datetime is truthy).
should_refresh_metadata(meta, cfg, now) ==
    IF meta.exists
    THEN LET metadata_last_modified == fromtimestamp(meta.mtime)
             config_last_modified == fromtimestamp(cfg.mtime)
         IN  IF /\ datetime_now(now) - metadata_last_modified
                        < timedelta_days(1)
                /\ \/ ~cfg.exists
                   \/ config_last_modified <= metadata_last_modified
             THEN FALSE
             ELSE TRUE
    ELSE TRUE

RefreshInit ==
    /\ metadata_file \in FileStates(0..MaxTime)
    /\ tmdb_config_path \in FileStates(0..MaxTime)
    /\ rfNow \in 0..MaxTime
    /\ rfPc = "call"
    /\ need_refresh = TRUE

RefreshIdle ==
    /\ metadata_file = [exists |-> FALSE, mtime |-> 0]
    /\ tmdb_config_path = [exists |-> FALSE, mtime |-> 0]
    /\ rfNow = 0
    /\ rfPc = "idle"
    /\ need_refresh = TRUE

\* One call of should_refresh_metadata on the two paths.
ShouldRefreshCall ==
    /\ rfPc = "call"
    /\ need_refresh' = should_refresh_metadata(metadata_file,
                                               tmdb_config_path, rfNow)
    /\ rfPc' = "done"
    /\ UNCHANGED <<metadata_file, tmdb_config_path, rfNow>>
    /\ UNCHANGED notRefreshVars

(***************************************************************************)
(* Config store: utils/file_utils.py load_tmdb_config_file and             *)
(* update_tmdb_config.                                                     *)
(*                                                                         *)
(* A config document is a mapping; each key is modelled by the set of its  *)
(* values, empty when the key is absent.  custom_field stands for any key  *)
(* the program does not know.                                              *)
(***************************************************************************)
MediaIds == 1..MaxId

ConfigDocs ==
    [tmdb_id : {{}} \cup {{i} : i \in MediaIds},
     update_metadata : {{}, {TRUE}, {FALSE}},
     override_poster : {{}, {"/custom.jpg"}},
     custom_field : {{}, {"preserved_value"}}]

ConfigKeys == {"tmdb_id", "update_metadata", "override_poster", "custom_field"}

\* {}
EmptyDoc ==
    [tmdb_id |-> {}, update_metadata |-> {}, override_poster |-> {},
     custom_field |-> {}]

\* key in doc
HasKey(doc, key) == doc[key] # {}

\* The file on disk: absent, text that is not JSON, or a JSON document.
ConfigFiles ==
    {[kind |-> "absent", doc |-> EmptyDoc],
     [kind |-> "malformed", doc |-> EmptyDoc]} \cup
    {[kind |-> "json", doc |-> d] : d \in ConfigDocs}

\* json.dumps(tmdb_config, indent=4) written to the path.
JsonFile(doc) == [kind |-> "json", doc |-> doc]

\* load_tmdb_config_file(config_path): the parsed document, {} when the
\* file is absent or does not parse.
load_tmdb_config_file(file) ==
    IF file.kind = "json" THEN file.doc ELSE EmptyDoc

\* Mutant of UpdateWrites: the rewrite of an existing file writes
\* {'tmdb_id': media_id} alone, as the create branch does.
UpdateWrites_only_id(config, media_id) ==
    [EmptyDoc EXCEPT !.tmdb_id = {media_id}]

\* The dict update_tmdb_config writes when the file exists and the dict
\* passed in has no tmdb_id: the dict itself with tmdb_id added.
UpdateWrites(config, media_id) ==
    [config EXCEPT !.tmdb_id = {media_id}]

ConfigInit ==
    /\ cfgDisk \in ConfigFiles
    /\ tmdb_config = load_tmdb_config_file(cfgDisk)
    /\ cfgLast = "none"

ConfigIdle ==
    /\ cfgDisk = [kind |-> "absent", doc |-> EmptyDoc]
    /\ tmdb_config = EmptyDoc
    /\ cfgLast = "idle"

\* The caller reads the file again: tmdb_config = await
\* load_tmdb_config_file(config_path).
LoadConfig ==
    /\ tmdb_config' = load_tmdb_config_file(cfgDisk)
    /\ cfgLast' = "loaded"
    /\ UNCHANGED cfgDisk
    /\ UNCHANGED notConfigVars

\* update_tmdb_config(path, tmdb_config, media_id, name), file absent: a
\* new dict {'tmdb_id': media_id} is bound to the local name and written;
\* the caller's dict is left as it was.  A failing open/write is logged.
UpdateCreate ==
    /\ cfgDisk.kind = "absent"
    /\ \E media_id \in MediaIds, written \in BOOLEAN :
          IF written
          THEN /\ cfgDisk' = JsonFile([EmptyDoc EXCEPT !.tmdb_id = {media_id}])
               /\ cfgLast' = "created"
          ELSE /\ cfgDisk' = cfgDisk
               /\ cfgLast' = "error"
    /\ UNCHANGED tmdb_config
    /\ UNCHANGED notConfigVars

\* update_tmdb_config, file present, 'tmdb_id' not in the dict passed in:
\* tmdb_id is added to the caller's dict (in place) and the dict is written.
UpdateAdd ==
    /\ cfgDisk.kind # "absent"
    /\ ~HasKey(tmdb_config, "tmdb_id")
    /\ \E media_id \in MediaIds, written \in BOOLEAN :
          /\ tmdb_config' = UpdateWrites(tmdb_config, media_id)
          /\ IF written
             THEN /\ cfgDisk' = JsonFile(UpdateWrites(tmdb_config, media_id))
                  /\ cfgLast' = "added"
             ELSE /\ cfgDisk' = cfgDisk
                  /\ cfgLast' = "error"
    /\ UNCHANGED notConfigVars

\* update_tmdb_config, file present, 'tmdb_id' in the dict passed in:
\* nothing is written.
UpdateKeep ==
    /\ cfgDisk.kind # "absent"
    /\ HasKey(tmdb_config, "tmdb_id")
    /\ cfgLast' = "kept"
    /\ UNCHANGED <<cfgDisk, tmdb_config>>
    /\ UNCHANGED notConfigVars

(***************************************************************************)
(* Remote client: utils/tmdb_utils.py make_tmdb_api_request.               *)
(***************************************************************************)
\* The Retry-After header of a 429 response: absent, a number of seconds,
\* or an HTTP-date.
RetryAfterHeaders ==
    {[kind |-> "absent", seconds |-> 0], [kind |-> "date", seconds |-> 0]}
    \cup {[kind |-> "seconds", seconds |-> n] : n \in 0..MaxRetryAfter}

\* How one session.get(url) can end.  status 0: the request raised
\* aiohttp.ClientError.  A 200 response carries JSON, or a body that
\* response.json() rejects with ContentTypeError (a ClientError) when the
\* content type is not JSON, or with JSONDecodeError when it does not parse.
Responses ==
    {[status |-> 200, body |-> b, header |-> [kind |-> "absent", seconds |-> 0]]
        : b \in {"json", "not_json_type", "bad_json"}}
    \cup {[status |-> 429, body |-> "", header |-> h] : h \in RetryAfterHeaders}
    \cup {[status |-> st, body |-> "", header |-> [kind |-> "absent", seconds |-> 0]]
        : st \in {0, 404}}

\* How an attempt is recorded in rqLog.
Outcome(resp) ==
    CASE resp.status = 200 /\ resp.body = "json" -> "200"
      [] resp.status = 200 /\ resp.body = "not_json_type" -> "ClientError"
      [] resp.status = 200 /\ resp.body = "bad_json" -> "bad_json"
      [] resp.status = 429 -> "429"
      [] resp.status = 0 -> "ClientError"
      [] OTHER -> "error_status"

\* int(response.headers.get('Retry-After', backoff_factor)) is defined when
\* the header is absent or an integer literal; otherwise int() raises
\* ValueError.
RetryAfterParses(header) == header.kind # "date"

\* The value of int(response.headers.get('Retry-After', backoff_factor))
\* where it is defined.
RetryAfterValue(header, backoff) ==
    IF header.kind = "seconds" THEN header.seconds ELSE backoff

\* while retries < max_retries (max_retries is an int)
LoopContinues == retries < max_retries

RetryInit ==
    /\ retries = 0
    /\ backoff_factor = 1
    /\ rqPc = "loop"
    /\ rqResult = "None"
    /\ rqLog = <<>>
    /\ rqSleeps = <<>>
    /\ rqHeaders = <<>>

RetryIdle ==
    /\ retries = 0
    /\ backoff_factor = 1
    /\ rqPc = "idle"
    /\ rqResult = "None"
    /\ rqLog = <<>>
    /\ rqSleeps = <<>>
    /\ rqHeaders = <<>>

\* One pass of the loop body: a request that is answered 200 with JSON
\* returns the data.
AttemptOk ==
    /\ rqPc = "loop"
    /\ LoopContinues
    /\ \E resp \in Responses :
          /\ resp.status = 200 /\ resp.body = "json"
          /\ rqLog' = Append(rqLog, Outcome(resp))
    /\ rqPc' = "returned"
    /\ rqResult' = "data"
    /\ UNCHANGED <<retries, backoff_factor, rqSleeps, rqHeaders>>
    /\ UNCHANGED notRetryVars

\* One pass of the loop body: status 429.  The Retry-After value is parsed
\* (ValueError leaves the function), slept, and the loop goes on with
\* retries + 1 and the backoff doubled.
Attempt429 ==
    /\ rqPc = "loop"
    /\ LoopContinues
    /\ \E resp \in Responses :
          /\ resp.status = 429
          /\ rqLog' = Append(rqLog, Outcome(resp))
          /\ IF RetryAfterParses(resp.header)
             THEN /\ rqSleeps' = Append(rqSleeps,
                                    RetryAfterValue(resp.header, backoff_factor))
                  /\ rqHeaders' = Append(rqHeaders, resp.header)
                  /\ retries' = retries + 1
                  /\ backoff_factor' = backoff_factor * 2
                  /\ rqPc' = "loop"
             ELSE /\ rqPc' = "raised"
                  /\ UNCHANGED <<retries, backoff_factor, rqSleeps, rqHeaders>>
    /\ UNCHANGED rqResult
    /\ UNCHANGED notRetryVars

\* One pass of the loop body: any other status is logged and None returned.
AttemptErrorStatus ==
    /\ rqPc = "loop"
    /\ LoopContinues
    /\ \E resp \in Responses :
          /\ resp.status \notin {0, 200, 429}
          /\ rqLog' = Append(rqLog, Outcome(resp))
    /\ rqPc' = "returned"
    /\ rqResult' = "None"
    /\ UNCHANGED <<retries, backoff_factor, rqSleeps, rqHeaders>>
    /\ UNCHANGED notRetryVars

\* One pass of the loop body: aiohttp.ClientError (raised by the request,
\* or by response.json() on a non-JSON content type) is caught: retries + 1,
\* sleep backoff_factor, backoff doubled.
AttemptClientError ==
    /\ rqPc = "loop"
    /\ LoopContinues
    /\ \E resp \in Responses :
          /\ Outcome(resp) = "ClientError"
          /\ rqLog' = Append(rqLog, Outcome(resp))
          /\ rqHeaders' = Append(rqHeaders, resp.header)
    /\ retries' = retries + 1
    /\ rqSleeps' = Append(rqSleeps, backoff_factor)
    /\ backoff_factor' = backoff_factor * 2
    /\ UNCHANGED <<rqPc, rqResult>>
    /\ UNCHANGED notRetryVars

\* One pass of the loop body: a 200 whose body does not parse;
\* json.JSONDecodeError is no ClientError and leaves the function.
AttemptBadJson ==
    /\ rqPc = "loop"
    /\ LoopContinues
    /\ \E resp \in Responses :
          /\ Outcome(resp) = "bad_json"
          /\ rqLog' = Append(rqLog, Outcome(resp))
    /\ rqPc' = "raised"
    /\ UNCHANGED <<retries, backoff_factor, rqResult, rqSleeps, rqHeaders>>
    /\ UNCHANGED notRetryVars

\* The loop condition fails: "Max retries exceeded" is logged, None returned.
RetriesExhausted ==
    /\ rqPc = "loop"
    /\ ~LoopContinues
    /\ rqPc' = "returned"
    /\ rqResult' = "None"
    /\ UNCHANGED <<retries, backoff_factor, rqLog, rqSleeps, rqHeaders>>
    /\ UNCHANGED notRetryVars

(***************************************************************************)
(* Orchestrator: download_tmdb_images.py.                                  *)
(*                                                                         *)
(* The collection holds at most one movie directory and one show           *)
(* directory, the show with at most one season directory.  The script is   *)
(* run twice; files carry their modification time and a generation that    *)
(* counts the writes made to them (each write of a metadata document       *)
(* stamps a new last_updated, so a rewritten file is a changed file).      *)
(* The .blurhash siblings and the threads that write them are not part of  *)
(* this component's state.                                                 *)
(***************************************************************************)
\* for image_type in ['backdrop_path', 'poster_path', 'logo_path']
ShowImageTypes == <<"backdrop_path", "poster_path", "logo_path">>

\* for image_key in ['poster_path', 'backdrop_path', 'logo_path']
MovieImageKeys == <<"poster_path", "backdrop_path", "logo_path">>

AllImageKeys == {"backdrop_path", "poster_path", "logo_path"}

\* os.path.join(dir, name)
Path(dir, name) == [dir |-> dir, name |-> name]

MOVIES_DIR == "/var/www/html/movies"

SHOWS_DIR == "/var/www/html/tv"

MovieDir == "/var/www/html/movies/m"

ShowDir == "/var/www/html/tv/s"

\* os.path.join(show_dir, f'Season {season_number}'), season_number 1
SeasonDir == "/var/www/html/tv/s/Season 1"

\* The directory of entity "m" or "s".
EntityDir(e) == IF e = "m" THEN MovieDir ELSE ShowDir

ConfigPath(e) == Path(EntityDir(e), "tmdb.config")

MetadataPath(e) == Path(EntityDir(e), "metadata.json")

\* f'{image_key.replace("_path", "")}{file_extension}'
MovieImagePath(key) ==
    Path(MovieDir, CASE key = "poster_path" -> "poster.jpg"
                     [] key = "backdrop_path" -> "backdrop.jpg"
                     [] OTHER -> "logo.jpg")

\* f'show_{image_type.split("_")[0]}{file_extension}'
ShowImagePath(type) ==
    Path(ShowDir, CASE type = "poster_path" -> "show_poster.jpg"
                    [] type = "backdrop_path" -> "show_backdrop.jpg"
                    [] OTHER -> "show_logo.jpg")

SeasonPosterPath == Path(SeasonDir, "season_poster.jpg")

\* f'{episode_number:02d}_metadata.json'
EpisodeMetadataPath(n) ==
    Path(SeasonDir, <<"01_metadata.json", "02_metadata.json",
                      "03_metadata.json", "04_metadata.json">>[n])

\* f'{episode_number:02d} - Thumbnail.jpg'
EpisodeThumbnailPath(n) ==
    Path(SeasonDir, <<"01 - Thumbnail.jpg", "02 - Thumbnail.jpg",
                      "03 - Thumbnail.jpg", "04 - Thumbnail.jpg">>[n])

MoviePaths ==
    {Path(MOVIES_DIR, "m"), ConfigPath("m"), MetadataPath("m")}
    \cup {MovieImagePath(k) : k \in AllImageKeys}

ShowPaths ==
    {Path(SHOWS_DIR, "s"), ConfigPath("s"), MetadataPath("s"),
     Path(ShowDir, "Season 1"), SeasonPosterPath}
    \cup {ShowImagePath(k) : k \in AllImageKeys}
    \cup {EpisodeMetadataPath(n) : n \in 1..MaxEpisodes}
    \cup {EpisodeThumbnailPath(n) : n \in 1..MaxEpisodes}

Paths == MoviePaths \cup ShowPaths

NoFile == [exists |-> FALSE, mtime |-> 0, gen |-> 0]

\* A file (or directory) that was last written at `mtime'.
OldFile(mtime) == [exists |-> TRUE, mtime |-> mtime, gen |-> 0]

\* open(path, 'w') ... write ... close at the current clock.
Written(files, path, now) ==
    [files EXCEPT ![path] =
        [exists |-> TRUE, mtime |-> now, gen |-> files[path].gen + 1]]

\* os.utime(path, None) on an existing file.
Touched(files, path, now) ==
    [files EXCEPT ![path] = [@ EXCEPT !.mtime = now]]

\* datetime.now() - datetime.fromtimestamp(os.path.getmtime(path))
Age(files, path, now) == datetime_now(now) - fromtimestamp(files[path].mtime)

(***************************************************************************)
(* The remote record of an entity, as get_tmdb_data returns it: its id,    *)
(* the image keys it carries (their paths change with the version), and    *)
(* whether it lists a season (season_number 1 with episode_count           *)
(* MaxEpisodes).                                                           *)
(***************************************************************************)
\* get_tmdb_data returned None, or a local that is not bound yet.
NoneData ==
    [none |-> TRUE, id |-> 0, version |-> 0, keys |-> {}, seasons |-> 0]

\* The body TMDB sends with a 404 for an unknown id; get_tmdb_data does
\* not look at the status and returns it with last_updated added.
ErrorPayload ==
    [none |-> FALSE, id |-> 0, version |-> 0, keys |-> {}, seasons |-> 0]

Record(version, keys, seasons) ==
    [none |-> FALSE, id |-> 1, version |-> version, keys |-> keys,
     seasons |-> seasons]

RemoteRecords(type) ==
    {Record(v, K, n) :
        v \in 1..MaxVersion,
        K \in {{"poster_path"}, AllImageKeys},
        n \in IF type = "tv" THEN {0, 1} ELSE {0}}

\* What one call get_tmdb_data(name, tmdb_id, type) can come to: a request
\* raises (nothing catches it), the searches find nothing (None, only when
\* no tmdb_id is configured), the id is unknown (only when one is
\* configured), or a record.
GetTmdbDataOutcomes(config, type) ==
    {[raised |-> TRUE, data |-> NoneData]}
    \cup (IF HasKey(config, "tmdb_id")
          THEN {[raised |-> FALSE, data |-> ErrorPayload]}
          ELSE {[raised |-> FALSE, data |-> NoneData]})
    \cup {[raised |-> FALSE, data |-> r] : r \in RemoteRecords(type)}

\* The outcome got nothing usable from the remote service.
FetchFailed(outcome) ==
    outcome.raised \/ outcome.data.none \/ outcome.data = ErrorPayload

\* read_tmdb_config(config_path)
read_tmdb_config(file) ==
    IF file.kind = "json" THEN file.doc ELSE EmptyDoc

\* A dict is truthy when it is not empty.
Truthy(doc) == doc # EmptyDoc

\* Mutant of should_update_metadata: a missing key counts as False.
should_update_metadata_default_false(config) ==
    config.update_metadata = {TRUE}

\* should_update_metadata(tmdb_config): tmdb_config.get('update_metadata', True)
should_update_metadata(config) ==
    config.update_metadata # {FALSE}

\* process_movies' refresh_metadata.
MovieRefreshDecision(files, now) ==
    IF files[MetadataPath("m")].exists
    THEN LET metadata_last_modified ==
                 fromtimestamp(files[MetadataPath("m")].mtime)
             config_last_modified ==
                 fromtimestamp(files[ConfigPath("m")].mtime)
         IN  IF files[ConfigPath("m")].exists
             THEN \/ datetime_now(now) - metadata_last_modified
                        >= timedelta_days(1)
                  \/ config_last_modified > metadata_last_modified
             ELSE datetime_now(now) - metadata_last_modified
                        >= timedelta_days(1)
    ELSE TRUE

\* Mutant of ShowRefreshDecision: a config as old as the metadata counts
\* as newer.
ShowRefreshDecision_config_not_older(files, show_config, now) ==
    IF files[MetadataPath("s")].exists
    THEN LET metadata_last_modified ==
                 fromtimestamp(files[MetadataPath("s")].mtime)
             config_last_modified ==
                 fromtimestamp(files[ConfigPath("s")].mtime)
         IN  \/ datetime_now(now) - metadata_last_modified
                    >= timedelta_days(1)
             \/ /\ Truthy(show_config)
                /\ config_last_modified >= metadata_last_modified
    ELSE TRUE

\* process_shows' need_refresh; config_last_modified is None when the
\* parsed config is an empty dict.
ShowRefreshDecision(files, show_config, now) ==
    IF files[MetadataPath("s")].exists
    THEN LET metadata_last_modified ==
                 fromtimestamp(files[MetadataPath("s")].mtime)
             config_last_modified ==
                 fromtimestamp(files[ConfigPath("s")].mtime)
         IN  \/ datetime_now(now) - metadata_last_modified
                    >= timedelta_days(1)
             \/ /\ Truthy(show_config)
                /\ config_last_modified > metadata_last_modified
    ELSE TRUE

\* How the requests.get of download_image can end.
DownloadOutcomes == {"200", "404", "raised"}

\* Mutant of DownloadSkips: download_image never returns at once.
DownloadSkips_never(files, path, force_download) == FALSE

\* download_image returns at once: the file exists and force_download is
\* not set.
DownloadSkips(files, path, force_download) ==
    files[path].exists /\ ~force_download

\* The files after download_image(url, path, force) whose request ended
\* in `outcome'.
Downloaded(files, path, force_download, outcome, now) ==
    IF ~DownloadSkips(files, path, force_download) /\ outcome = "200"
    THEN Written(files, path, now)
    ELSE files

(***************************************************************************)
(* The collection before the first run.                                    *)
(***************************************************************************)
\* The clock at the first run.
Clock0 == 4 * HoursPerDay

Absent == [kind |-> "absent", doc |-> EmptyDoc]

\* The tmdb.config files a movie directory starts with.
MovieConfigs ==
    {Absent, JsonFile(EmptyDoc), JsonFile([EmptyDoc EXCEPT !.tmdb_id = {1}])}

\* The tmdb.config files a show directory starts with.
ShowConfigs ==
    {Absent, [kind |-> "malformed", doc |-> EmptyDoc], JsonFile(EmptyDoc),
     JsonFile([EmptyDoc EXCEPT !.tmdb_id = {1}]),
     JsonFile([EmptyDoc EXCEPT !.update_metadata = {FALSE}]),
     JsonFile([EmptyDoc EXCEPT !.tmdb_id = {1}, !.update_metadata = {TRUE}]),
     JsonFile([EmptyDoc EXCEPT !.tmdb_id = {1}, !.update_metadata = {FALSE}])}

\* An entity directory: its config and the config's age, the age of its
\* metadata.json (-1: no such file) and whether its images are on disk.
EntityScenarios(cfgs) ==
    {sc \in [cfg : cfgs, cfgAge : {0, 30}, metaAge : {-1, 1, 23, 24},
             images : BOOLEAN] :
        /\ sc.cfg.kind = "absent" => sc.cfgAge = 0
        /\ sc.metaAge = -1 => ~sc.images}

\* A season directory: the ages of its poster, of its episodes' metadata
\* documents and of their thumbnails (-1: no such file).
SeasonScenarios ==
    [poster : {-1, 25}, episode : {-1, 1, 25}, thumbnail : {-1, 1, 73}]

\* A file of the given age at the first run (-1: no such file).
Aged(age) == IF age = -1 THEN NoFile ELSE OldFile(Clock0 - age)

\* The files of an entity directory in scenario sc.
EntityFiles(e, sc) ==
    [p \in {ConfigPath(e), MetadataPath(e)}
           \cup {IF e = "m" THEN MovieImagePath(k) ELSE ShowImagePath(k)
                    : k \in AllImageKeys} |->
        IF p = ConfigPath(e)
        THEN (IF sc.cfg.kind = "absent" THEN NoFile ELSE Aged(sc.cfgAge))
        ELSE IF p = MetadataPath(e) THEN Aged(sc.metaAge)
        ELSE IF sc.images THEN Aged(sc.metaAge) ELSE NoFile]

\* The files of the season directory in scenario sn.
SeasonFiles(sn) ==
    [p \in {SeasonPosterPath}
           \cup {EpisodeMetadataPath(n) : n \in 1..MaxEpisodes}
           \cup {EpisodeThumbnailPath(n) : n \in 1..MaxEpisodes} |->
        IF p = SeasonPosterPath THEN Aged(sn.poster)
        ELSE IF p \in {EpisodeMetadataPath(n) : n \in 1..MaxEpisodes}
        THEN Aged(sn.episode)
        ELSE Aged(sn.thumbnail)]

\* The document of a metadata.json that is on disk before the first run.
StoredRecord(e) == Record(1, AllImageKeys, IF e = "s" THEN 1 ELSE 0)

\* The file system holding the movie (scenario m) when hasMovie, the show
\* (scenario s) when hasShow, and the season directory (scenario sn) when
\* hasSeason.
InitialFiles(hasMovie, m, hasShow, s, hasSeason, sn) ==
    [p \in Paths |->
        IF p = Path(MOVIES_DIR, "m")
        THEN (IF hasMovie THEN OldFile(0) ELSE NoFile)
        ELSE IF p = Path(SHOWS_DIR, "s")
        THEN (IF hasShow THEN OldFile(0) ELSE NoFile)
        ELSE IF p = Path(ShowDir, "Season 1")
        THEN (IF hasShow /\ hasSeason THEN OldFile(0) ELSE NoFile)
        ELSE IF p \in DOMAIN EntityFiles("m", m)
        THEN (IF hasMovie THEN EntityFiles("m", m)[p] ELSE NoFile)
        ELSE IF p \in DOMAIN EntityFiles("s", s)
        THEN (IF hasShow THEN EntityFiles("s", s)[p] ELSE NoFile)
        ELSE IF hasShow /\ hasSeason THEN SeasonFiles(sn)[p] ELSE NoFile]

\* A directory that was just added: nothing in it but, perhaps, a config.
FreshScenarios(cfgs) ==
    {sc \in EntityScenarios(cfgs) : sc.metaAge = -1 /\ sc.cfgAge = 0}

\* A show directory that is up to date, or that was just added.
SettledScenarios(cfgs) ==
    {sc \in EntityScenarios(cfgs) :
        /\ sc.cfg \in {Absent, JsonFile([EmptyDoc EXCEPT !.tmdb_id = {1}])}
        /\ sc.cfgAge = 0
        /\ sc.metaAge \in {-1, 1}
        /\ sc.images = (sc.metaAge = 1)}

NoSeason == [poster |-> -1, episode |-> -1, thumbnail |-> -1]

\* The collections the script is run on: a movie in any scenario, a show
\* without a season directory in any scenario, a settled show with a
\* season directory in any scenario, or a freshly added movie beside a
\* freshly added show.
Collections ==
    {[hasMovie |-> TRUE, m |-> m, hasShow |-> FALSE, s |-> s0,
      hasSeason |-> FALSE, sn |-> NoSeason] :
        m \in EntityScenarios(MovieConfigs),
        s0 \in {CHOOSE x \in FreshScenarios(ShowConfigs) : x.cfg = Absent}}
    \cup
    {[hasMovie |-> FALSE, m |-> m0, hasShow |-> TRUE, s |-> s,
      hasSeason |-> FALSE, sn |-> NoSeason] :
        m0 \in {CHOOSE x \in FreshScenarios(MovieConfigs) : x.cfg = Absent},
        s \in EntityScenarios(ShowConfigs)}
    \cup
    {[hasMovie |-> FALSE, m |-> m0, hasShow |-> TRUE, s |-> s,
      hasSeason |-> TRUE, sn |-> sn] :
        m0 \in {CHOOSE x \in FreshScenarios(MovieConfigs) : x.cfg = Absent},
        s \in SettledScenarios(ShowConfigs),
        sn \in SeasonScenarios}
    \cup
    {[hasMovie |-> TRUE, m |-> m, hasShow |-> TRUE, s |-> s,
      hasSeason |-> TRUE, sn |-> NoSeason] :
        m \in FreshScenarios(MovieConfigs),
        s \in FreshScenarios(ShowConfigs)}

OrchInit ==
    /\ clock = Clock0
    /\ run = 1
    /\ pc = "main"
    /\ \E c \in Collections :
          /\ fs = InitialFiles(c.hasMovie, c.m, c.hasShow, c.s,
                               c.hasSeason, c.sn)
          /\ configs = [e \in {"m", "s"} |->
                IF e = "m"
                THEN (IF c.hasMovie THEN c.m.cfg ELSE Absent)
                ELSE (IF c.hasShow THEN c.s.cfg ELSE Absent)]
          /\ docs = [e \in {"m", "s"} |->
                IF e = "m"
                THEN (IF c.hasMovie /\ c.m.metaAge # -1
                      THEN StoredRecord("m") ELSE NoneData)
                ELSE (IF c.hasShow /\ c.s.metaAge # -1
                      THEN StoredRecord("s") ELSE NoneData)]
    /\ movie_data = NoneData
    /\ existing_metadata = NoneData
    /\ show_data = NoneData
    /\ show_need_refresh = TRUE
    /\ image_index = 1
    /\ episode_number = 1
    /\ remoteCalled = FALSE
    /\ fetches = 0
    /\ gate = "none"
    /\ mishaps = 0

OrchIdle ==
    /\ clock = 0
    /\ run = 0
    /\ pc = "idle"
    /\ fs = [p \in Paths |-> NoFile]
    /\ configs = [e \in {"m", "s"} |-> Absent]
    /\ docs = [e \in {"m", "s"} |-> NoneData]
    /\ movie_data = NoneData
    /\ existing_metadata = NoneData
    /\ show_data = NoneData
    /\ show_need_refresh = TRUE
    /\ image_index = 1
    /\ episode_number = 1
    /\ remoteCalled = FALSE
    /\ fetches = 0
    /\ gate = "none"
    /\ mishaps = 0

(***************************************************************************)
(* main, process_movies and process_shows.                                 *)
(***************************************************************************)
\* Where the script goes when the movie loop is over: process_shows(), whose
\* listing holds the show directory or nothing.
AfterMovies == IF fs[Path(SHOWS_DIR, "s")].exists THEN "show_begin" ELSE "exit"

\* The requests that came back empty-handed are counted; at most
\* MaxMishaps of them happen.
Noted(failed) == IF failed THEN mishaps + 1 ELSE mishaps

Affordable(failed) == failed => mishaps < MaxMishaps

\* main: process_movies() first; its listing holds the movie directory or
\* nothing.
Main ==
    /\ pc = "main"
    /\ pc' = IF fs[Path(MOVIES_DIR, "m")].exists THEN "movie_begin"
             ELSE AfterMovies
    /\ UNCHANGED <<clock, run, fs, configs, docs, movie_data,
                   existing_metadata, show_data, show_need_refresh,
                   image_index, episode_number, remoteCalled, fetches,
                   gate, mishaps>>
    /\ UNCHANGED notOrchVars

\* process_movies, refresh_metadata false: the existing metadata is loaded
\* and nothing else is done for the movie.
MovieKeep ==
    /\ pc = "movie_begin"
    /\ ~MovieRefreshDecision(fs, clock)
    /\ existing_metadata' = docs["m"]
    /\ pc' = AfterMovies
    /\ UNCHANGED <<clock, run, fs, configs, docs, movie_data, show_data,
                   show_need_refresh, image_index, episode_number,
                   remoteCalled, fetches, gate, mishaps>>
    /\ UNCHANGED notOrchVars

\* process_movies, refresh_metadata true: get_tmdb_data is called and a
\* truthy result is written to metadata.json.
MovieFetch ==
    /\ pc = "movie_begin"
    /\ MovieRefreshDecision(fs, clock)
    /\ existing_metadata' = docs["m"]
    /\ remoteCalled' = TRUE
    /\ \E o \in GetTmdbDataOutcomes(read_tmdb_config(configs["m"]), "movie") :
          /\ Affordable(FetchFailed(o))
          /\ mishaps' = Noted(FetchFailed(o))
          /\ IF o.raised
             THEN /\ pc' = "crashed"
                  /\ UNCHANGED <<fs, docs, movie_data, image_index>>
             ELSE IF o.data.none
             THEN /\ pc' = AfterMovies
                  /\ movie_data' = o.data
                  /\ UNCHANGED <<fs, docs, image_index>>
             ELSE /\ fs' = Written(fs, MetadataPath("m"), clock)
                  /\ docs' = [docs EXCEPT !["m"] = o.data]
                  /\ movie_data' = o.data
                  /\ image_index' = 1
                  /\ pc' = "movie_image"
    /\ UNCHANGED <<clock, run, configs, show_data, show_need_refresh,
                   episode_number, fetches, gate>>
    /\ UNCHANGED notOrchVars

\* One pass of process_movies' image loop: the image is downloaded (forced)
\* when the key's value differs from the one in the existing metadata,
\* else downloaded when its file is missing.
MovieImage ==
    /\ pc = "movie_image"
    /\ LET image_key == MovieImageKeys[image_index]
           file_path == MovieImagePath(image_key)
           differs == /\ image_key \in existing_metadata.keys
                      /\ existing_metadata.version # movie_data.version
           wanted == /\ image_key \in movie_data.keys
                     /\ (differs \/ ~fs[file_path].exists)
       IN  \E out \in DownloadOutcomes :
              /\ ~wanted => out = "200"
              /\ fs' = IF wanted
                       THEN Downloaded(fs, file_path, differs, out, clock)
                       ELSE fs
              /\ remoteCalled' = (remoteCalled \/ wanted)
              /\ Affordable(wanted /\ out # "200")
              /\ mishaps' = Noted(wanted /\ out # "200")
              /\ IF wanted /\ out = "raised"
                 THEN pc' = "crashed" /\ UNCHANGED image_index
                 ELSE IF image_index < Len(MovieImageKeys)
                 THEN pc' = pc /\ image_index' = image_index + 1
                 ELSE pc' = AfterMovies /\ UNCHANGED image_index
    /\ UNCHANGED <<clock, run, configs, docs, movie_data, existing_metadata,
                   show_data, show_need_refresh, episode_number, fetches,
                   gate>>
    /\ UNCHANGED notOrchVars

\* process_shows, updates disabled and metadata.json present: `continue'.
ShowSkip ==
    /\ pc = "show_begin"
    /\ ~should_update_metadata(read_tmdb_config(configs["s"]))
    /\ fs[MetadataPath("s")].exists
    /\ gate' = "skipped"
    /\ pc' = "exit"
    /\ UNCHANGED <<clock, run, fs, configs, docs, movie_data,
                   existing_metadata, show_data, show_need_refresh,
                   image_index, episode_number, remoteCalled, fetches,
                   mishaps>>
    /\ UNCHANGED notOrchVars

\* process_shows, updates disabled and no metadata.json: the initial
\* retrieval; the loop body then goes on below the `if'.
ShowInitialFetch ==
    /\ pc = "show_begin"
    /\ ~should_update_metadata(read_tmdb_config(configs["s"]))
    /\ ~fs[MetadataPath("s")].exists
    /\ gate' = "initial"
    /\ remoteCalled' = TRUE
    /\ fetches' = fetches + 1
    /\ \E o \in GetTmdbDataOutcomes(read_tmdb_config(configs["s"]), "tv") :
          /\ Affordable(FetchFailed(o))
          /\ mishaps' = Noted(FetchFailed(o))
          /\ show_data' = o.data
          /\ IF o.raised
             THEN pc' = "crashed" /\ UNCHANGED <<fs, docs>>
             ELSE IF o.data.none
             THEN pc' = "show_refresh" /\ UNCHANGED <<fs, docs>>
             ELSE /\ fs' = Written(fs, MetadataPath("s"), clock)
                  /\ docs' = [docs EXCEPT !["s"] = o.data]
                  /\ pc' = "show_refresh"
    /\ UNCHANGED <<clock, run, configs, movie_data, existing_metadata,
                   show_need_refresh, image_index, episode_number>>
    /\ UNCHANGED notOrchVars

\* process_shows, updates allowed: straight to the refresh decision.
ShowAllowed ==
    /\ pc = "show_begin"
    /\ should_update_metadata(read_tmdb_config(configs["s"]))
    /\ gate' = "allowed"
    /\ pc' = "show_refresh"
    /\ UNCHANGED <<clock, run, fs, configs, docs, movie_data,
                   existing_metadata, show_data, show_need_refresh,
                   image_index, episode_number, remoteCalled, fetches,
                   mishaps>>
    /\ UNCHANGED notOrchVars

\* process_shows, need_refresh true: get_tmdb_data is called and a truthy
\* result is written to metadata.json.
ShowRefetch ==
    /\ pc = "show_refresh"
    /\ ShowRefreshDecision(fs, read_tmdb_config(configs["s"]), clock)
    /\ show_need_refresh' = TRUE
    /\ remoteCalled' = TRUE
    /\ fetches' = fetches + 1
    /\ image_index' = 1
    /\ \E o \in GetTmdbDataOutcomes(read_tmdb_config(configs["s"]), "tv") :
          /\ Affordable(FetchFailed(o))
          /\ mishaps' = Noted(FetchFailed(o))
          /\ show_data' = o.data
          /\ IF o.raised
             THEN pc' = "crashed" /\ UNCHANGED <<fs, docs>>
             ELSE IF o.data.none
             THEN pc' = "show_image" /\ UNCHANGED <<fs, docs>>
             ELSE /\ fs' = Written(fs, MetadataPath("s"), clock)
                  /\ docs' = [docs EXCEPT !["s"] = o.data]
                  /\ pc' = "show_image"
    /\ UNCHANGED <<clock, run, configs, movie_data, existing_metadata,
                   episode_number, gate>>
    /\ UNCHANGED notOrchVars

\* process_shows, need_refresh false: metadata.json is loaded.
ShowLoad ==
    /\ pc = "show_refresh"
    /\ ~ShowRefreshDecision(fs, read_tmdb_config(configs["s"]), clock)
    /\ show_need_refresh' = FALSE
    /\ show_data' = docs["s"]
    /\ image_index' = 1
    /\ pc' = "show_image"
    /\ UNCHANGED <<clock, run, fs, configs, docs, movie_data,
                   existing_metadata, episode_number, remoteCalled, fetches,
                   gate, mishaps>>
    /\ UNCHANGED notOrchVars

\* `if image_type in show_data' with show_data None: TypeError, which
\* nothing catches.
ShowImageTypeError ==
    /\ pc = "show_image"
    /\ show_data.none
    /\ pc' = "crashed"
    /\ UNCHANGED <<clock, run, fs, configs, docs, movie_data,
                   existing_metadata, show_data, show_need_refresh,
                   image_index, episode_number, remoteCalled, fetches,
                   gate, mishaps>>
    /\ UNCHANGED notOrchVars

\* One pass of process_shows' image loop: the image is downloaded, forced,
\* when the metadata was refreshed or the file is missing.
ShowImage ==
    /\ pc = "show_image"
    /\ ~show_data.none
    /\ LET image_type == ShowImageTypes[image_index]
           image_path == ShowImagePath(image_type)
           wanted == /\ image_type \in show_data.keys
                     /\ (show_need_refresh \/ ~fs[image_path].exists)
       IN  \E out \in DownloadOutcomes :
              /\ ~wanted => out = "200"
              /\ fs' = IF wanted
                       THEN Downloaded(fs, image_path, TRUE, out, clock)
                       ELSE fs
              /\ remoteCalled' = (remoteCalled \/ wanted)
              /\ Affordable(wanted /\ out # "200")
              /\ mishaps' = Noted(wanted /\ out # "200")
              /\ IF wanted /\ out = "raised"
                 THEN pc' = "crashed" /\ UNCHANGED image_index
                 ELSE IF image_index < Len(ShowImageTypes)
                 THEN pc' = pc /\ image_index' = image_index + 1
                 ELSE pc' = "show_season" /\ UNCHANGED image_index
    /\ UNCHANGED <<clock, run, configs, docs, movie_data, existing_metadata,
                   show_data, show_need_refresh, episode_number, fetches,
                   gate>>
    /\ UNCHANGED notOrchVars

\* show_data.get('seasons', []) is empty: the show is done.
ShowNoSeasons ==
    /\ pc = "show_season"
    /\ show_data.seasons = 0
    /\ pc' = "exit"
    /\ UNCHANGED <<clock, run, fs, configs, docs, movie_data,
                   existing_metadata, show_data, show_need_refresh,
                   image_index, episode_number, remoteCalled, fetches,
                   gate, mishaps>>
    /\ UNCHANGED notOrchVars

\* Mutant of SeasonDirExists: the season is processed without the check.
SeasonDirExists_unchecked(files) == TRUE

\* `if os.path.exists(season_dir):'
SeasonDirExists(files) == files[Path(ShowDir, "Season 1")].exists

\* The season's directory does not exist: the season is skipped.
ShowSeasonSkipped ==
    /\ pc = "show_season"
    /\ show_data.seasons > 0
    /\ ~SeasonDirExists(fs)
    /\ pc' = "exit"
    /\ UNCHANGED <<clock, run, fs, configs, docs, movie_data,
                   existing_metadata, show_data, show_need_refresh,
                   image_index, episode_number, remoteCalled, fetches,
                   gate, mishaps>>
    /\ UNCHANGED notOrchVars

\* The season's directory exists: download_image(season_poster_url,
\* season_poster_path) when the poster is missing or older than one day.
ShowSeasonPoster ==
    /\ pc = "show_season"
    /\ show_data.seasons > 0
    /\ SeasonDirExists(fs)
    /\ LET refresh_season_poster ==
               \/ ~fs[SeasonPosterPath].exists
               \/ Age(fs, SeasonPosterPath, clock) > timedelta_days(1)
           requested ==
               /\ refresh_season_poster
               /\ ~DownloadSkips(fs, SeasonPosterPath, FALSE)
       IN  \E out \in DownloadOutcomes :
              /\ ~requested => out = "200"
              /\ fs' = IF refresh_season_poster
                       THEN Downloaded(fs, SeasonPosterPath, FALSE, out, clock)
                       ELSE fs
              /\ remoteCalled' = (remoteCalled \/ requested)
              /\ Affordable(requested /\ out # "200")
              /\ mishaps' = Noted(requested /\ out # "200")
              /\ IF requested /\ out = "raised"
                 THEN pc' = "crashed" /\ UNCHANGED episode_number
                 ELSE pc' = "show_episode" /\ episode_number' = 1
    /\ UNCHANGED <<clock, run, configs, docs, movie_data, existing_metadata,
                   show_data, show_need_refresh, image_index, fetches,
                   gate>>
    /\ UNCHANGED notOrchVars

\* One episode's metadata: get_tmdb_episode_data when the document is
\* missing or older than one day; data is written, None is not.
ShowEpisode ==
    /\ pc = "show_episode"
    /\ LET episode_metadata_file == EpisodeMetadataPath(episode_number)
           refresh_episode_metadata ==
               \/ ~fs[episode_metadata_file].exists
               \/ Age(fs, episode_metadata_file, clock) > timedelta_days(1)
       IN  \E episode_data \in {"data", "None"} :
              /\ ~refresh_episode_metadata => episode_data = "data"
              /\ fs' = IF refresh_episode_metadata /\ episode_data = "data"
                       THEN Written(fs, episode_metadata_file, clock)
                       ELSE fs
              /\ remoteCalled' = (remoteCalled \/ refresh_episode_metadata)
              /\ Affordable(refresh_episode_metadata
                                    /\ episode_data = "None")
              /\ mishaps' = Noted(refresh_episode_metadata
                                    /\ episode_data = "None")
    /\ pc' = "show_thumbnail"
    /\ UNCHANGED <<clock, run, configs, docs, movie_data, existing_metadata,
                   show_data, show_need_refresh, image_index, episode_number,
                   fetches, gate>>
    /\ UNCHANGED notOrchVars

\* One episode's thumbnail: when it is missing or older than three days
\* its URL is asked for; with a URL, download_image (not forced) and then
\* os.utime, which raises FileNotFoundError when the file is not there.
ShowThumbnail ==
    /\ pc = "show_thumbnail"
    /\ LET episode_thumbnail_path == EpisodeThumbnailPath(episode_number)
           refresh_episode_thumbnail ==
               IF fs[episode_thumbnail_path].exists
               THEN Age(fs, episode_thumbnail_path, clock) > timedelta_days(3)
               ELSE TRUE
           requested == ~DownloadSkips(fs, episode_thumbnail_path, FALSE)
       IN  \E url \in {"url", "None"}, out \in DownloadOutcomes :
              /\ ~refresh_episode_thumbnail => url = "url"
              /\ ~(refresh_episode_thumbnail /\ url = "url" /\ requested)
                    => out = "200"
              /\ remoteCalled' = (remoteCalled \/ refresh_episode_thumbnail)
              /\ Affordable(refresh_episode_thumbnail
                                    /\ (url = "None" \/ out # "200"))
              /\ mishaps' = Noted(refresh_episode_thumbnail
                                    /\ (url = "None" \/ out # "200"))
              /\ IF refresh_episode_thumbnail /\ url = "url"
                 THEN LET after == Downloaded(fs, episode_thumbnail_path,
                                              FALSE, out, clock)
                      IN  IF out = "raised" \/ ~after[episode_thumbnail_path].exists
                          THEN /\ fs' = after
                               /\ pc' = "crashed"
                               /\ UNCHANGED episode_number
                          ELSE /\ fs' = Touched(after, episode_thumbnail_path,
                                                clock)
                               /\ IF episode_number < MaxEpisodes
                                  THEN /\ episode_number' = episode_number + 1
                                       /\ pc' = "show_episode"
                                  ELSE /\ pc' = "exit"
                                       /\ UNCHANGED episode_number
                 ELSE /\ fs' = fs
                      /\ IF episode_number < MaxEpisodes
                         THEN /\ episode_number' = episode_number + 1
                              /\ pc' = "show_episode"
                         ELSE /\ pc' = "exit"
                              /\ UNCHANGED episode_number
    /\ UNCHANGED <<clock, run, configs, docs, movie_data, existing_metadata,
                   show_data, show_need_refresh, image_index, fetches,
                   gate>>
    /\ UNCHANGED notOrchVars

\* The script has ended (normally or with a traceback) and is started
\* again, up to MaxGap hours later.
NextRun ==
    /\ pc \in {"exit", "crashed"}
    /\ run = 1
    /\ run' = 2
    /\ \E gap \in 0..MaxGap : clock' = clock + gap
    /\ pc' = "main"
    /\ UNCHANGED mishaps
    /\ movie_data' = NoneData
    /\ existing_metadata' = NoneData
    /\ show_data' = NoneData
    /\ show_need_refresh' = TRUE
    /\ image_index' = 1
    /\ episode_number' = 1
    /\ remoteCalled' = FALSE
    /\ fetches' = 0
    /\ gate' = "none"
    /\ UNCHANGED <<fs, configs, docs>>
    /\ UNCHANGED notOrchVars

(***************************************************************************)
(* Episode fetches: download_tmdb_images.py get_tmdb_episode_data and      *)
(* get_episode_thumbnail_url.                                              *)
(***************************************************************************)
EpisodeFunctions == {"get_tmdb_episode_data", "get_episode_thumbnail_url"}

\* How the service behaves during one call: it answers each request as it
\* likes, it answers 429 to every request, or no request gets through.
Services == {"any", "rate_limited", "unreachable"}

\* How a requests.get can end under the service's behaviour: a status with
\* its body, or a RequestException.
Answers(service) ==
    IF service = "rate_limited" THEN {"429"}
    ELSE IF service = "unreachable" THEN {"RequestException"}
    ELSE {"200", "200_no_stills", "429", "404", "RequestException"}

Counted(n) == IF n < MaxRequests THEN n + 1 ELSE n

EpisodeInit ==
    /\ epFn \in EpisodeFunctions
    /\ epService \in Services
    /\ retry_count = 0
    /\ epRequests = 0
    /\ epSleep = 0
    /\ epPc = "request"
    /\ epResult = "pending"

EpisodeIdle ==
    /\ epFn = "none"
    /\ epService = "any"
    /\ retry_count = 0
    /\ epRequests = 0
    /\ epSleep = 0
    /\ epPc = "idle"
    /\ epResult = "pending"

\* get_tmdb_episode_data, status 200: the body is returned.
EpisodeDataOk ==
    /\ epFn = "get_tmdb_episode_data"
    /\ epPc = "request"
    /\ retry_count < episode_max_retries
    /\ "200" \in Answers(epService)
    /\ epRequests' = Counted(epRequests)
    /\ epResult' = "data"
    /\ epPc' = "returned"
    /\ UNCHANGED <<epFn, epService, retry_count, epSleep>>
    /\ UNCHANGED notEpisodeVars

\* get_tmdb_episode_data, status 429: time.sleep(10) and `continue';
\* retry_count is left as it is.
EpisodeDataRateLimited ==
    /\ epFn = "get_tmdb_episode_data"
    /\ epPc = "request"
    /\ retry_count < episode_max_retries
    /\ "429" \in Answers(epService)
    /\ epRequests' = Counted(epRequests)
    /\ epSleep' = 10
    /\ epPc' = "sleep"
    /\ UNCHANGED <<epFn, epService, retry_count, epResult>>
    /\ UNCHANGED notEpisodeVars

\* get_tmdb_episode_data, any other status: None.
EpisodeDataErrorStatus ==
    /\ epFn = "get_tmdb_episode_data"
    /\ epPc = "request"
    /\ retry_count < episode_max_retries
    /\ "404" \in Answers(epService)
    /\ epRequests' = Counted(epRequests)
    /\ epResult' = "None"
    /\ epPc' = "returned"
    /\ UNCHANGED <<epFn, epService, retry_count, epSleep>>
    /\ UNCHANGED notEpisodeVars

\* get_tmdb_episode_data, RequestException: retry_count += 1, then
\* time.sleep(retry_delay) or, at max_retries, None.
EpisodeDataRequestException ==
    /\ epFn = "get_tmdb_episode_data"
    /\ epPc = "request"
    /\ retry_count < episode_max_retries
    /\ "RequestException" \in Answers(epService)
    /\ epRequests' = Counted(epRequests)
    /\ retry_count' = retry_count + 1
    /\ IF retry_count + 1 < episode_max_retries
       THEN epSleep' = 2 /\ epPc' = "sleep" /\ UNCHANGED epResult
       ELSE epResult' = "None" /\ epPc' = "returned" /\ UNCHANGED epSleep
    /\ UNCHANGED <<epFn, epService>>
    /\ UNCHANGED notEpisodeVars

\* get_tmdb_episode_data: time.sleep returns and the loop goes round.
EpisodeDataSleepOver ==
    /\ epFn = "get_tmdb_episode_data"
    /\ epPc = "sleep"
    /\ epSleep' = 0
    /\ epPc' = "request"
    /\ UNCHANGED <<epFn, epService, retry_count, epRequests, epResult>>
    /\ UNCHANGED notEpisodeVars

\* get_episode_thumbnail_url, retry_count > 5: None, without a request.
ThumbnailRetriesExceeded ==
    /\ epFn = "get_episode_thumbnail_url"
    /\ epPc = "request"
    /\ retry_count > thumbnail_retry_limit
    /\ epResult' = "None"
    /\ epPc' = "returned"
    /\ UNCHANGED <<epFn, epService, retry_count, epRequests, epSleep>>
    /\ UNCHANGED notEpisodeVars

\* get_episode_thumbnail_url, status 200 with stills: the first still's URL.
ThumbnailOk ==
    /\ epFn = "get_episode_thumbnail_url"
    /\ epPc = "request"
    /\ retry_count <= thumbnail_retry_limit
    /\ "200" \in Answers(epService)
    /\ epRequests' = Counted(epRequests)
    /\ epResult' = "url"
    /\ epPc' = "returned"
    /\ UNCHANGED <<epFn, epService, retry_count, epSleep>>
    /\ UNCHANGED notEpisodeVars

\* get_episode_thumbnail_url, status 200 without stills, or a status that
\* is neither 200 nor 429: None.
ThumbnailNothing ==
    /\ epFn = "get_episode_thumbnail_url"
    /\ epPc = "request"
    /\ retry_count <= thumbnail_retry_limit
    /\ \E answer \in {"200_no_stills", "404"} : answer \in Answers(epService)
    /\ epRequests' = Counted(epRequests)
    /\ epResult' = "None"
    /\ epPc' = "returned"
    /\ UNCHANGED <<epFn, epService, retry_count, epSleep>>
    /\ UNCHANGED notEpisodeVars

\* get_episode_thumbnail_url, status 429: time.sleep(8) before the
\* function calls itself.
ThumbnailRateLimited ==
    /\ epFn = "get_episode_thumbnail_url"
    /\ epPc = "request"
    /\ retry_count <= thumbnail_retry_limit
    /\ "429" \in Answers(epService)
    /\ epRequests' = Counted(epRequests)
    /\ epSleep' = 8
    /\ epPc' = "sleep"
    /\ UNCHANGED <<epFn, epService, retry_count, epResult>>
    /\ UNCHANGED notEpisodeVars

\* get_episode_thumbnail_url, RequestException: time.sleep(2) before the
\* function calls itself.
ThumbnailRequestException ==
    /\ epFn = "get_episode_thumbnail_url"
    /\ epPc = "request"
    /\ retry_count <= thumbnail_retry_limit
    /\ "RequestException" \in Answers(epService)
    /\ epRequests' = Counted(epRequests)
    /\ epSleep' = 2
    /\ epPc' = "sleep"
    /\ UNCHANGED <<epFn, epService, retry_count, epResult>>
    /\ UNCHANGED notEpisodeVars

\* get_episode_thumbnail_url: time.sleep returns and the function calls
\* itself with retry_count + 1; the inner call's result is returned as it
\* is.
ThumbnailRetry ==
    /\ epFn = "get_episode_thumbnail_url"
    /\ epPc = "sleep"
    /\ retry_count' = retry_count + 1
    /\ epSleep' = 0
    /\ epPc' = "request"
    /\ UNCHANGED <<epFn, epService, epRequests, epResult>>
    /\ UNCHANGED notEpisodeVars

(***************************************************************************)
(* Entity fetch: utils/tmdb_utils.py fetch_tmdb_media_details and          *)
(* download_tmdb_images.py get_tmdb_data.                                  *)
(***************************************************************************)
FetchFunctions == {"fetch_tmdb_media_details", "get_tmdb_data"}

\* The sub-resources each function asks for after the core details.
SubResources(fn) ==
    IF fn = "fetch_tmdb_media_details"
    THEN <<"cast", "trailer_url", "logo_path", "rating">>
    ELSE <<"cast", "trailer_url", "logo_path">>

SubResourceSet(fn) == {SubResources(fn)[i] : i \in DOMAIN SubResources(fn)}

\* What one request can come to.  For fetch_tmdb_media_details it is a
\* call of make_tmdb_api_request: data, None, or an exception the helper
\* lets through.  For get_tmdb_data it is requests.get(...).json(): a body
\* with the item, a body without it (an error body, an empty list), or an
\* exception.
RequestOutcomes == {"data", "nothing", "raised"}

\* The record before any sub-resource was looked at.
BareRecord ==
    [f \in {"cast", "recurring_cast", "trailer_url", "logo_path", "rating",
             "last_updated"}
        |-> "absent"]

\* The resource requested after `resource', or "returned" after the last.
FollowingStep(fn, resource) ==
    LET i == CHOOSE k \in DOMAIN SubResources(fn) : SubResources(fn)[k] = resource
    IN  IF i < Len(SubResources(fn)) THEN SubResources(fn)[i + 1]
        ELSE "returned"

\* Mutant of DetailsAbort: the entity fetch goes on without core details.
DetailsAbort_never(outcome) == FALSE

\* fetch_tmdb_media_details: `if not media_details: return None'.
DetailsAbort(outcome) == outcome = "nothing"

\* What fetch_tmdb_media_details stores for a sub-resource that came back
\* None: media_details['cast'] = [], the other fields None.
StoredForNone(resource) == IF resource = "cast" THEN "empty" ELSE "None"

FetchInit ==
    /\ ftFn \in FetchFunctions
    /\ ftHasId \in BOOLEAN
    /\ media_type \in {"tv", "movie"}
    /\ ftPc = IF ftHasId THEN "details" ELSE "search"
    /\ ftRequested = {}
    /\ ftFailed = {}
    /\ media_details = BareRecord
    /\ ftResult = "pending"

FetchIdle ==
    /\ ftFn = "none"
    /\ ftHasId = FALSE
    /\ media_type = "tv"
    /\ ftPc = "idle"
    /\ ftRequested = {}
    /\ ftFailed = {}
    /\ media_details = BareRecord
    /\ ftResult = "pending"

\* The search by name: results lead on to the details request, no result
\* to the search without the year.
FetchSearch ==
    /\ ftPc = "search"
    /\ \E outcome \in RequestOutcomes :
          /\ ftRequested' = ftRequested \cup {"search"}
          /\ ftFailed' = IF outcome # "nothing" THEN ftFailed
                         ELSE ftFailed \cup {"search"}
          /\ ftPc' = IF outcome = "data" THEN "details"
                     ELSE IF outcome = "nothing" THEN "search_no_year"
                     ELSE "raised"
    /\ UNCHANGED <<ftFn, ftHasId, media_type, media_details, ftResult>>
    /\ UNCHANGED notFetchVars

\* The search without the year: results lead on to the details request, no
\* result to `return None'.
FetchSearchNoYear ==
    /\ ftPc = "search_no_year"
    /\ \E outcome \in RequestOutcomes :
          /\ ftRequested' = ftRequested \cup {"search_no_year"}
          /\ ftFailed' = IF outcome # "nothing" THEN ftFailed
                         ELSE ftFailed \cup {"search_no_year"}
          /\ ftPc' = IF outcome = "data" THEN "details"
                     ELSE IF outcome = "nothing" THEN "returned"
                     ELSE "raised"
          /\ ftResult' = IF outcome = "nothing" THEN "None" ELSE ftResult
    /\ UNCHANGED <<ftFn, ftHasId, media_type, media_details>>
    /\ UNCHANGED notFetchVars

\* fetch_tmdb_media_details, the core details: None ends the call with
\* None.
FetchDetails ==
    /\ ftFn = "fetch_tmdb_media_details"
    /\ ftPc = "details"
    /\ \E outcome \in RequestOutcomes :
          /\ ftRequested' = ftRequested \cup {"details"}
          /\ ftFailed' = IF outcome # "nothing" THEN ftFailed
                         ELSE ftFailed \cup {"details"}
          /\ ftPc' = IF outcome = "raised" THEN "raised"
                     ELSE IF DetailsAbort(outcome) THEN "returned"
                     ELSE "cast"
          /\ ftResult' = IF outcome # "raised" /\ DetailsAbort(outcome)
                         THEN "None" ELSE ftResult
    /\ UNCHANGED <<ftFn, ftHasId, media_type, media_details>>
    /\ UNCHANGED notFetchVars

\* get_tmdb_data, the core details: details_resp.json() is taken as the
\* record whatever the status was.
GetDetails ==
    /\ ftFn = "get_tmdb_data"
    /\ ftPc = "details"
    /\ \E outcome \in RequestOutcomes :
          /\ ftRequested' = ftRequested \cup {"details"}
          /\ ftFailed' = IF outcome # "nothing" THEN ftFailed
                         ELSE ftFailed \cup {"details"}
          /\ ftPc' = IF outcome = "raised" THEN "raised" ELSE "cast"
    /\ UNCHANGED <<ftFn, ftHasId, media_type, media_details, ftResult>>
    /\ UNCHANGED notFetchVars

\* fetch_tmdb_media_details, one sub-resource: its value, or [] / None
\* when the helper returned None (a show also gets recurring_cast with its
\* cast); the call goes on to the next one and, after the last, stamps
\* last_updated and returns the record.
FetchSubResource ==
    /\ ftFn = "fetch_tmdb_media_details"
    /\ ftPc \in SubResourceSet(ftFn)
    /\ \E outcome \in RequestOutcomes :
          /\ ftRequested' = ftRequested \cup {ftPc}
          /\ ftFailed' = IF outcome # "nothing" THEN ftFailed
                         ELSE ftFailed \cup {ftPc}
          /\ IF outcome = "raised"
             THEN /\ ftPc' = "raised"
                  /\ UNCHANGED <<media_details, ftResult>>
             ELSE /\ media_details' =
                        [media_details EXCEPT
                            ![ftPc] = IF outcome = "data" THEN "value"
                                      ELSE StoredForNone(ftPc),
                            !.recurring_cast =
                                IF ftPc = "cast" /\ media_type = "tv"
                                   /\ outcome = "data"
                                THEN "value" ELSE @,
                            !.last_updated =
                                IF FollowingStep(ftFn, ftPc) = "returned"
                                THEN "value" ELSE @]
                  /\ ftPc' = FollowingStep(ftFn, ftPc)
                  /\ ftResult' = IF FollowingStep(ftFn, ftPc) = "returned"
                                 THEN "record" ELSE ftResult
    /\ UNCHANGED <<ftFn, ftHasId, media_type>>
    /\ UNCHANGED notFetchVars

\* get_tmdb_data, one sub-resource (get_media_cast, get_media_trailer_url,
\* get_media_logo_path): the key is set only when something was found; an
\* exception of requests.get or .json() is not caught.  After the last one
\* last_updated is stamped and the record returned.
GetSubResource ==
    /\ ftFn = "get_tmdb_data"
    /\ ftPc \in SubResourceSet(ftFn)
    /\ \E outcome \in RequestOutcomes :
          /\ ftRequested' = ftRequested \cup {ftPc}
          /\ ftFailed' = IF outcome # "nothing" THEN ftFailed
                         ELSE ftFailed \cup {ftPc}
          /\ IF outcome = "raised"
             THEN /\ ftPc' = "raised"
                  /\ UNCHANGED <<media_details, ftResult>>
             ELSE /\ media_details' =
                        [media_details EXCEPT
                            ![ftPc] = IF outcome = "data" THEN "value" ELSE @,
                            !.last_updated =
                                IF FollowingStep(ftFn, ftPc) = "returned"
                                THEN "value" ELSE @]
                  /\ ftPc' = FollowingStep(ftFn, ftPc)
                  /\ ftResult' = IF FollowingStep(ftFn, ftPc) = "returned"
                                 THEN "record" ELSE ftResult
    /\ UNCHANGED <<ftFn, ftHasId, media_type>>
    /\ UNCHANGED notFetchVars

(***************************************************************************)
(* Metadata write: `with open(metadata_file, 'w') as f: json.dump(...)' in *)
(* process_shows and process_movies, and utils/file_utils.py               *)
(* write_json_file.                                                        *)
(***************************************************************************)
\* json.dumps(data, indent=4, sort_keys=True) of the document of the given
\* version, as the pieces that reach the disk one after the other.
Serialized(version) == [i \in 1..DocLen |-> version]

NoMetadata == [exists |-> FALSE, content |-> <<>>]

\* A metadata.json holding the whole document of the given version.
WholeFile(version) == [exists |-> TRUE, content |-> Serialized(version)]

\* What metadata.json can be before the call: missing, or a whole document.
StoredFiles == {NoMetadata} \cup {WholeFile(v) : v \in 1..MaxVersion}

\* open(path, 'w'): the file is created or truncated.
Opened(file) == [exists |-> TRUE, content |-> <<>>]

\* One more piece of the document has reached the disk.
Flushed(file, version) ==
    [file EXCEPT !.content = Append(@, Serialized(version)[Len(@) + 1])]

\* The script is about to fetch; write_json_file was handed its data.
WriteInit ==
    /\ mwFn \in {"json.dump", "write_json_file"}
    /\ mwOld \in StoredFiles
    /\ mwFile = mwOld
    /\ IF mwFn = "json.dump"
       THEN mwFetched = "pending" /\ mwData = 0 /\ mwPc = "fetch"
       ELSE mwFetched = "record" /\ mwData \in 1..MaxVersion /\ mwPc = "open"

WriteIdle ==
    /\ mwFn = "none"
    /\ mwOld = NoMetadata
    /\ mwFetched = "pending"
    /\ mwData = 0
    /\ mwFile = NoMetadata
    /\ mwPc = "idle"

\* show_data = get_tmdb_data(...); `if show_data:' lets through a record
\* and also the error body TMDB sends for an unknown id, not None.
MetadataFetch ==
    /\ mwPc = "fetch"
    /\ \E fetched \in {"None", "record", "error_body"} :
          /\ mwFetched' = fetched
          /\ mwData' \in IF fetched = "record" THEN 1..MaxVersion ELSE {0}
          /\ mwPc' = IF fetched = "None" THEN "done" ELSE "open"
    /\ UNCHANGED <<mwFn, mwOld, mwFile>>
    /\ UNCHANGED notWriteVars

\* open(metadata_file, 'w') / aiofiles.open(file_path, 'w').
MetadataOpen ==
    /\ mwPc = "open"
    /\ mwFile' = Opened(mwFile)
    /\ mwPc' = "write"
    /\ UNCHANGED <<mwFn, mwOld, mwFetched, mwData>>
    /\ UNCHANGED notWriteVars

\* The next piece of the document is written out.
MetadataFlush ==
    /\ mwPc = "write"
    /\ Len(mwFile.content) < DocLen
    /\ mwFile' = Flushed(mwFile, mwData)
    /\ UNCHANGED <<mwFn, mwOld, mwFetched, mwData, mwPc>>
    /\ UNCHANGED notWriteVars

\* The `with' block ends: the file is closed with everything in it.
MetadataClose ==
    /\ mwPc = "write"
    /\ Len(mwFile.content) = DocLen
    /\ mwPc' = "done"
    /\ UNCHANGED <<mwFn, mwOld, mwFetched, mwData, mwFile>>
    /\ UNCHANGED notWriteVars

\* The process is killed; the file stays as it is on disk.
MetadataKill ==
    /\ mwPc \in {"fetch", "open", "write"}
    /\ mwPc' = "killed"
    /\ UNCHANGED <<mwFn, mwOld, mwFetched, mwData, mwFile>>
    /\ UNCHANGED notWriteVars

(***************************************************************************)
(* Image download: download_tmdb_images.py download_image with             *)
(* generate_and_save_blurhash in a thread, and utils/image_utils.py        *)
(* download_image_file with generate_blurhash_for_image awaited.           *)
(*                                                                         *)
(* One destination path is downloaded to, one call after the other.  A     *)
(* file is [exists, version, len]: for the image, the first len chunks of  *)
(* the image of that version; for the .blurhash, what the hash in it was   *)
(* computed from.                                                          *)
(***************************************************************************)
DownloadFunctions == {"download_image", "download_image_file"}

FilePath == "file_path"

BlurhashPath == "file_path.blurhash"

Missing == [exists |-> FALSE, version |-> 0, len |-> 0]

\* The whole image of the given version.
WholeImage(version) == [exists |-> TRUE, version |-> version, len |-> ImageChunks]

\* The image is there and all of it.
IsWhole(file) == file.exists /\ file.len = ImageChunks

\* Before the first call: no image, or a whole image with or without the
\* hash computed from it.
DownloadStarts ==
    {[p \in {FilePath, BlurhashPath} |-> Missing]}
    \cup {[p \in {FilePath, BlurhashPath} |->
              IF p = FilePath \/ hashed THEN WholeImage(v) ELSE Missing] :
            v \in 1..MaxVersion, hashed \in BOOLEAN}

NoThread == [pc |-> "none", read |-> Missing]

\* Mutant of WritesOn: every answer is written to the file.
WritesOn_any_status(status) == status # "exception"

\* `if response.status_code == 200:' / `if response.status == 200:'.
WritesOn(status) == status = "200"

\* The length of the file after one more write: download_image writes the
\* chunks of iter_content one by one, download_image_file all bytes at once.
AfterWrite(fn, len) ==
    IF fn = "download_image" THEN len + 1 ELSE ImageChunks

DownloadInit ==
    /\ dlFn \in DownloadFunctions
    /\ dlFiles \in DownloadStarts
    /\ dlPc = "idle"
    /\ dlForce = FALSE
    /\ dlVersion = 0
    /\ dlCalls = 0
    /\ dlStatus = "none"
    /\ dlRequests = 0
    /\ dlHashGone = FALSE
    /\ dlThreads = [t \in 1..MaxDownloads |-> NoThread]

DownloadIdle ==
    /\ dlFn = "none"
    /\ dlFiles = [p \in {FilePath, BlurhashPath} |-> Missing]
    /\ dlPc = "off"
    /\ dlForce = FALSE
    /\ dlVersion = 0
    /\ dlCalls = 0
    /\ dlStatus = "none"
    /\ dlRequests = 0
    /\ dlHashGone = FALSE
    /\ dlThreads = [t \in 1..MaxDownloads |-> NoThread]

\* The function is called for the path.
DownloadCall ==
    /\ dlPc = "idle"
    /\ dlCalls < MaxDownloads
    /\ dlCalls' = dlCalls + 1
    /\ dlForce' \in BOOLEAN
    /\ dlVersion' \in 1..MaxVersion
    /\ dlStatus' = "none"
    /\ dlHashGone' = FALSE
    /\ dlPc' = "check"
    /\ UNCHANGED <<dlFn, dlFiles, dlRequests, dlThreads>>
    /\ UNCHANGED notDownloadVars

\* `if os.path.exists(file_path) and not force_download: return'.
DownloadSkip ==
    /\ dlPc = "check"
    /\ DownloadSkips(dlFiles, FilePath, dlForce)
    /\ dlPc' = "idle"
    /\ UNCHANGED <<dlFn, dlFiles, dlForce, dlVersion, dlCalls, dlStatus,
                   dlRequests, dlHashGone, dlThreads>>
    /\ UNCHANGED notDownloadVars

\* The .blurhash is looked for and, when there, removed.  An os.remove that
\* fails with anything but FileNotFoundError ends download_image with that
\* exception; download_image_file prints it and goes on.
DownloadRemoveHash ==
    /\ dlPc = "check"
    /\ ~DownloadSkips(dlFiles, FilePath, dlForce)
    /\ \E removal \in {"removed", "error"} :
          /\ ~dlFiles[BlurhashPath].exists => removal = "removed"
          /\ dlFiles' = IF removal = "removed"
                        THEN [dlFiles EXCEPT ![BlurhashPath] = Missing]
                        ELSE dlFiles
          /\ dlHashGone' = (removal = "removed")
          /\ dlPc' = IF removal = "error" /\ dlFn = "download_image"
                     THEN "raised" ELSE "request"
    /\ UNCHANGED <<dlFn, dlForce, dlVersion, dlCalls, dlStatus, dlRequests,
                   dlThreads>>
    /\ UNCHANGED notDownloadVars

\* requests.get / session.get.  On 200 the file is opened next; on another
\* status the function prints and returns; an exception of the request ends
\* download_image and is caught and printed by download_image_file.
DownloadRequest ==
    /\ dlPc = "request"
    /\ dlRequests' = dlRequests + 1
    /\ \E status \in {"200", "404", "exception"} :
          /\ dlStatus' = status
          /\ dlPc' = IF status = "exception"
                     THEN (IF dlFn = "download_image" THEN "raised" ELSE "idle")
                     ELSE IF WritesOn(status) THEN "open" ELSE "idle"
    /\ UNCHANGED <<dlFn, dlFiles, dlForce, dlVersion, dlCalls, dlHashGone,
                   dlThreads>>
    /\ UNCHANGED notDownloadVars

\* open(file_path, 'wb'): the file is created or truncated.
DownloadOpen ==
    /\ dlPc = "open"
    /\ dlFiles' = [dlFiles EXCEPT ![FilePath] =
                      [exists |-> TRUE, version |-> dlVersion, len |-> 0]]
    /\ dlPc' = "write"
    /\ UNCHANGED <<dlFn, dlForce, dlVersion, dlCalls, dlStatus, dlRequests,
                   dlHashGone, dlThreads>>
    /\ UNCHANGED notDownloadVars

\* file.write(chunk) / f.write(image_data).
DownloadWrite ==
    /\ dlPc = "write"
    /\ dlFiles[FilePath].len < ImageChunks
    /\ dlFiles' = [dlFiles EXCEPT ![FilePath].len = AfterWrite(dlFn, @)]
    /\ UNCHANGED <<dlFn, dlPc, dlForce, dlVersion, dlCalls, dlStatus,
                   dlRequests, dlHashGone, dlThreads>>
    /\ UNCHANGED notDownloadVars

\* The file is closed and the hash computation started: download_image
\* starts a thread for it and returns, download_image_file awaits it.
DownloadStartHash ==
    /\ dlPc = "write"
    /\ dlFiles[FilePath].len = ImageChunks
    /\ dlThreads' = [dlThreads EXCEPT ![dlCalls] =
                        [pc |-> "started", read |-> Missing]]
    /\ dlPc' = IF dlFn = "download_image" THEN "idle" ELSE "await"
    /\ UNCHANGED <<dlFn, dlFiles, dlForce, dlVersion, dlCalls, dlStatus,
                   dlRequests, dlHashGone>>
    /\ UNCHANGED notDownloadVars

\* An empty file: open(path, 'w') has created or truncated it and nothing
\* was written.
EmptyHashFile == [exists |-> TRUE, version |-> 0, len |-> 0]

\* What process_image(file_path) gives its caller.  utils/blurhash_cli.py
\* defines it with `async def': download_image_file awaits it and gets a
\* hash of the image on disk or nothing (None, or an exception its caller
\* catches); generate_and_save_blurhash calls it without await and gets a
\* coroutine object, which is truthy, whatever is on disk.
HashResults(fn, image) ==
    IF fn = "download_image" THEN {"coroutine"}
    ELSE IF image.exists THEN {"hash", "nothing"}
    ELSE {"nothing"}

\* Mutant of ExitWaitsFor: the hash threads are daemon threads.
ExitWaitsFor_daemon(thread) == FALSE

\* The Thread of line 148 is not a daemon: the interpreter joins it before
\* the process exits.  An awaited computation has ended when its caller
\* goes on.
ExitWaitsFor(thread) == thread.pc \in {"started", "computed"}

\* blurhash_string = process_image(file_path), in the thread or awaited.
HashCompute ==
    \E t \in 1..MaxDownloads :
       /\ dlPc # "exited"
       /\ dlThreads[t].pc = "started"
       /\ \E blurhash_string \in HashResults(dlFn, dlFiles[FilePath]) :
             dlThreads' = [dlThreads EXCEPT ![t] =
                    IF blurhash_string = "hash"
                    THEN [pc |-> "computed", read |-> dlFiles[FilePath]]
                    ELSE IF blurhash_string = "coroutine"
                    THEN [pc |-> "computed", read |-> EmptyHashFile]
                    ELSE [pc |-> "done", read |-> Missing]]
       /\ UNCHANGED <<dlFn, dlFiles, dlPc, dlForce, dlVersion, dlCalls,
                      dlStatus, dlRequests, dlHashGone>>
       /\ UNCHANGED notDownloadVars

\* `if blurhash_string:' holds: file_path.blurhash is opened for writing
\* and the hash written to it.  Writing the coroutine object raises
\* TypeError, which generate_and_save_blurhash catches: the file stays
\* empty.
HashSave ==
    \E t \in 1..MaxDownloads :
       /\ dlPc # "exited"
       /\ dlThreads[t].pc = "computed"
       /\ dlFiles' = [dlFiles EXCEPT ![BlurhashPath] = dlThreads[t].read]
       /\ dlThreads' = [dlThreads EXCEPT ![t].pc = "done"]
       /\ UNCHANGED <<dlFn, dlPc, dlForce, dlVersion, dlCalls, dlStatus,
                      dlRequests, dlHashGone>>
       /\ UNCHANGED notDownloadVars

\* download_image_file: generate_blurhash_for_image has returned.
DownloadHashAwaited ==
    /\ dlPc = "await"
    /\ dlThreads[dlCalls].pc = "done"
    /\ dlPc' = "idle"
    /\ UNCHANGED <<dlFn, dlFiles, dlForce, dlVersion, dlCalls, dlStatus,
                   dlRequests, dlHashGone, dlThreads>>
    /\ UNCHANGED notDownloadVars

\* The script, or the program that called download_image_file, comes to
\* its end between two downloads or with the exception a download raised;
\* the process exits once the threads it waits for have ended.
ProcessExit ==
    /\ dlPc \in {"idle", "raised"}
    /\ \A t \in 1..MaxDownloads : ~ExitWaitsFor(dlThreads[t])
    /\ dlPc' = "exited"
    /\ UNCHANGED <<dlFn, dlFiles, dlForce, dlVersion, dlCalls, dlStatus,
                   dlRequests, dlHashGone, dlThreads>>
    /\ UNCHANGED notDownloadVars

(***************************************************************************)
(* Image pass: the image loops of download_tmdb_images.py, process_shows   *)
(* lines 333-351 and process_movies lines 445-465, for one image field     *)
(* (poster_path; the other fields go through the same statements).         *)
(*                                                                         *)
(* A path of the remote record or of an override is [stem, ext]; a URL is  *)
(* [base, path]; a file is [dir, stem, ext].  imFiles records for every    *)
(* file the URL its bytes were downloaded from.                            *)
(***************************************************************************)
ImageFunctions == {"process_shows", "process_movies"}

\* The poster_path values of a record; the last differs in its extension.
RemotePaths ==
    {[stem |-> "/a", ext |-> ".jpg"], [stem |-> "/b", ext |-> ".jpg"],
     [stem |-> "/b", ext |-> ".png"]}

\* The value of override_poster in a tmdb.config that sets it.
OverridePath == [stem |-> "/custom_poster", ext |-> ".jpg"]

\* f'https://image.tmdb.org/t/p/original{path}'
TmdbImageUrl(path) ==
    [base |-> "https://image.tmdb.org/t/p/original", path |-> path]

\* get_file_extension(url): os.path.splitext(urlparse(url).path)[1]
get_file_extension(url) == url.path.ext

\* os.path.join(show_dir, f'show_{image_type.split("_")[0]}{file_extension}')
ShowPosterFile(file_extension) ==
    [dir |-> "/var/www/html/tv/s", stem |-> "show_poster",
     ext |-> file_extension]

\* os.path.join(movie_dir, f'{image_key.replace("_path", "")}{file_extension}')
MoviePosterFile(file_extension) ==
    [dir |-> "/var/www/html/movies/m", stem |-> "poster",
     ext |-> file_extension]

\* file_path = tmdb_config[override_key]: the override's value, as it is,
\* taken for a path of the file system.
OverrideAsFile(path) == [dir |-> "", stem |-> path.stem, ext |-> path.ext]

ImageFiles ==
    {ShowPosterFile(e) : e \in {".jpg", ".png"}}
    \cup {MoviePosterFile(e) : e \in {".jpg", ".png"}}
    \cup {OverrideAsFile(OverridePath)}

NoImage == [exists |-> FALSE, from |-> {}]

\* The local image_url of process_movies when a pass begins: unbound (the
\* first field of the first movie) or what an earlier pass bound it to.
EarlierUrl ==
    TmdbImageUrl([stem |-> "/earlier", ext |-> ".jpg"])

\* The files after download_image(url, path, force) whose request, when
\* one is made, is answered with `status'.
ImageDownloaded(files, url, path, force_download, status) ==
    IF ~DownloadSkips(files, path, force_download) /\ WritesOn(status)
    THEN [files EXCEPT ![path] = [exists |-> TRUE, from |-> {url}]]
    ELSE files

ImageInit ==
    /\ imFn \in ImageFunctions
    /\ imOverride \in {{}, {OverridePath}}
    /\ imRemote \in {{}} \cup {{p} : p \in RemotePaths}
    /\ imExisting \in {{}} \cup {{p} : p \in RemotePaths}
    /\ imRefresh \in BOOLEAN
    \* process_movies runs its image loop only after a fetch; a show that
    \* was not refreshed has its record loaded from metadata.json
    /\ imFn = "process_movies" => imRefresh
    /\ ~imRefresh => imRemote = imExisting
    /\ \E present \in BOOLEAN :
          imFiles = [f \in ImageFiles |->
              IF /\ present
                 /\ imExisting # {}
                 /\ f \in {ShowPosterFile(".jpg"), MoviePosterFile(".jpg")}
                 /\ f.dir = (IF imFn = "process_shows"
                             THEN "/var/www/html/tv/s"
                             ELSE "/var/www/html/movies/m")
              THEN [exists |-> TRUE,
                    from |-> {TmdbImageUrl([stem |-> "/a", ext |-> ".jpg"])}]
              ELSE NoImage]
    /\ image_url \in IF imFn = "process_movies"
                     THEN {{}, {EarlierUrl}} ELSE {{}}
    /\ imPc = "loop"
    /\ imCall = {}

ImageIdle ==
    /\ imFn = "none"
    /\ imOverride = {}
    /\ imRemote = {}
    /\ imExisting = {}
    /\ imRefresh = FALSE
    /\ imFiles = [f \in ImageFiles |-> NoImage]
    /\ image_url = {}
    /\ imPc = "off"
    /\ imCall = {}

\* `if image_type in show_data' / `if image_key in movie_data' is false:
\* nothing is done for the field.
ImageKeyMissing ==
    /\ imPc = "loop"
    /\ imRemote = {}
    /\ imPc' = "done"
    /\ UNCHANGED <<imFn, imOverride, imRemote, imExisting, imRefresh,
                   imFiles, image_url, imCall>>
    /\ UNCHANGED notImageVars

\* process_shows lines 336-351: the URL is built from the override when
\* there is one, else from the record; the image is downloaded, forced,
\* when need_refresh is set or the file is missing.
ImageShowPass ==
    /\ imPc = "loop"
    /\ imFn = "process_shows"
    /\ imRemote # {}
    /\ LET url == IF imOverride # {}
                  THEN TmdbImageUrl(CHOOSE p \in imOverride : TRUE)
                  ELSE TmdbImageUrl(CHOOSE p \in imRemote : TRUE)
           image_path == ShowPosterFile(get_file_extension(url))
       IN  /\ image_url' = {url}
           /\ IF imRefresh \/ ~imFiles[image_path].exists
              THEN \E status \in {"200", "404"} :
                      /\ imCall' = {[url |-> url, path |-> image_path,
                                     force |-> TRUE]}
                      /\ imFiles' = ImageDownloaded(imFiles, url, image_path,
                                                    TRUE, status)
              ELSE UNCHANGED <<imCall, imFiles>>
    /\ imPc' = "done"
    /\ UNCHANGED <<imFn, imOverride, imRemote, imExisting, imRefresh>>
    /\ UNCHANGED notImageVars

\* process_movies lines 452-465, no override: the URL and the file are
\* built from the record; the download is forced when the record's value
\* differs from the one in the existing metadata, unforced when the file
\* is missing.
ImageMoviePass ==
    /\ imPc = "loop"
    /\ imFn = "process_movies"
    /\ imRemote # {}
    /\ imOverride = {}
    /\ LET url == TmdbImageUrl(CHOOSE p \in imRemote : TRUE)
           file_path == MoviePosterFile(get_file_extension(url))
           changed == imExisting # {} /\ imExisting # imRemote
       IN  /\ image_url' = {url}
           /\ IF changed \/ ~imFiles[file_path].exists
              THEN \E status \in {"200", "404"} :
                      /\ imCall' = {[url |-> url, path |-> file_path,
                                     force |-> changed]}
                      /\ imFiles' = ImageDownloaded(imFiles, url, file_path,
                                                    changed, status)
              ELSE UNCHANGED <<imCall, imFiles>>
    /\ imPc' = "done"
    /\ UNCHANGED <<imFn, imOverride, imRemote, imExisting, imRefresh>>
    /\ UNCHANGED notImageVars

\* process_movies lines 449-451 and 458-465, with an override: file_path
\* is the override's value and image_url is not assigned.  A download is
\* called with what image_url was bound to before; with image_url unbound
\* the call raises UnboundLocalError.
ImageMovieOverridePass ==
    /\ imPc = "loop"
    /\ imFn = "process_movies"
    /\ imRemote # {}
    /\ imOverride # {}
    /\ LET file_path == OverrideAsFile(CHOOSE p \in imOverride : TRUE)
           changed == imExisting # {} /\ imExisting # imRemote
       IN  IF changed \/ ~imFiles[file_path].exists
           THEN IF image_url = {}
                THEN /\ imPc' = "crashed"
                     /\ UNCHANGED <<imCall, imFiles>>
                ELSE \E status \in {"200", "404"} :
                        LET url == CHOOSE u \in image_url : TRUE
                        IN  /\ imCall' = {[url |-> url, path |-> file_path,
                                           force |-> changed]}
                            /\ imFiles' = ImageDownloaded(imFiles, url,
                                              file_path, changed, status)
                            /\ imPc' = "done"
           ELSE /\ imPc' = "done"
                /\ UNCHANGED <<imCall, imFiles>>
    /\ UNCHANGED <<imFn, imOverride, imRemote, imExisting, imRefresh,
                   image_url>>
    /\ UNCHANGED notImageVars

(***************************************************************************)
(* Cast details: utils/tmdb_utils.py classify_role and                     *)
(* fetch_tmdb_cast_details for media_type 'tv'.  A member of the response  *)
(* is [id, total_episode_count], the count {} when the key is missing.     *)
(***************************************************************************)
\* The total_episode_count values of the members of a response.
EpisodeCounts == {{}, {-1}, {0}, {2}, {3}, {7}, {8}, {9}}

\* The responses: up to MaxCast members, member i with id i.
CreditsResponses ==
    UNION {[1..n -> EpisodeCounts] : n \in 0..MaxCast}

\* Mutant of classify_role: eight episodes are not yet a season regular.
classify_role_above_eight(episode_count) ==
    IF episode_count <= 0 THEN "Guest Star"
    ELSE IF episode_count > 8 THEN "Season Regular"
    ELSE IF episode_count >= 3 THEN "Recurring"
    ELSE "Guest Star"

\* classify_role(episode_count); `not episode_count' is true of 0.
classify_role(episode_count) ==
    IF episode_count = 0 \/ episode_count <= 0 THEN "Guest Star"
    ELSE IF episode_count >= 8 THEN "Season Regular"
    ELSE IF episode_count >= 3 THEN "Recurring"
    ELSE "Guest Star"

\* member.get('total_episode_count', 0)
EpisodeCountOf(count) == IF count = {} THEN 0 ELSE CHOOSE n \in count : TRUE

\* The cast_member dict built for member i of the response.
CastMember(response, i) ==
    [id |-> i,
     total_episode_count |-> EpisodeCountOf(response[i]),
     type |-> classify_role(EpisodeCountOf(response[i]))]

IsRecurring(member) == member.type = "Recurring"

NoCast == [none |-> TRUE, cast |-> <<>>, recurring_cast |-> <<>>]

CastInit ==
    /\ credits_data \in CreditsResponses
    /\ castHasCast \in BOOLEAN
    /\ ~castHasCast => credits_data = <<>>
    /\ castPc = "call"
    /\ castResult = NoCast

CastIdle ==
    /\ credits_data = <<>>
    /\ castHasCast = FALSE
    /\ castPc = "off"
    /\ castResult = NoCast

\* `if credits_data and 'cast' in credits_data:' holds: every member is
\* formatted and classified, the recurring ones are collected and the dict
\* of both lists is returned.
CastFormatted ==
    /\ castPc = "call"
    /\ castHasCast
    /\ LET all_cast == [i \in DOMAIN credits_data |->
                            CastMember(credits_data, i)]
       IN  castResult' = [none |-> FALSE, cast |-> all_cast,
                          recurring_cast |-> SelectSeq(all_cast, IsRecurring)]
    /\ castPc' = "returned"
    /\ UNCHANGED <<credits_data, castHasCast>>
    /\ UNCHANGED notCastVars

\* The request gave nothing, or a body without 'cast': `return None'.
CastUnavailable ==
    /\ castPc = "call"
    /\ ~castHasCast
    /\ castResult' = NoCast
    /\ castPc' = "returned"
    /\ UNCHANGED <<credits_data, castHasCast>>
    /\ UNCHANGED notCastVars

(***************************************************************************)
(* Override merge: download_tmdb_images.py process_shows (lines 302-307    *)
(* and 321-328) and process_movies (lines 436-443).  A dict is a function  *)
(* from its keys to its values.                                            *)
(***************************************************************************)
\* Keys of a fetched record.
RecordKeys == {"name", "overview", "poster_path"}

\* Keys of the config's 'metadata': two the record may hold, one it never
\* holds.
OverrideKeys == {"name", "overview", "custom_field"}

\* The dicts whose keys are among `keys' and whose values are among `values'.
Dicts(keys, values) == UNION {[s -> values] : s \in SUBSET keys}

\* What get_tmdb_data returns when it returns a record.
FetchedRecords == Dicts(RecordKeys, {"remote", "other"})

\* tmdb.config without 'metadata', with "metadata": null, with a mapping.
MetadataValues ==
    {[kind |-> "absent", map |-> <<>>], [kind |-> "null", map |-> <<>>]}
    \cup {[kind |-> "mapping", map |-> o] :
             o \in Dicts(OverrideKeys, {"custom", "other"})}

NoDict == [none |-> TRUE, doc |-> <<>>]

\* Mutant of dict_update: a key the dict holds keeps its value.
dict_update_setdefault(d, other) ==
    [k \in DOMAIN d \cup DOMAIN other |->
        IF k \in DOMAIN d THEN d[k] ELSE other[k]]

\* d.update(other): every key of `other' is set to other's value.
dict_update(d, other) ==
    [k \in DOMAIN d \cup DOMAIN other |->
        IF k \in DOMAIN other THEN other[k] ELSE d[k]]

MergeInit ==
    /\ mgFn \in {"process_shows", "process_movies"}
    /\ mgMetadata \in MetadataValues
    /\ mgFetched = NoDict
    /\ mgData = NoDict
    /\ mgWritten = NoDict
    /\ mgPc = "refresh"

MergeIdle ==
    /\ mgFn = "none"
    /\ mgMetadata = [kind |-> "absent", map |-> <<>>]
    /\ mgFetched = NoDict
    /\ mgData = NoDict
    /\ mgWritten = NoDict
    /\ mgPc = "off"

\* show_data = get_tmdb_data(...): a record.
MergeFetched ==
    /\ mgPc = "refresh"
    /\ \E record \in FetchedRecords :
          /\ mgFetched' = [none |-> FALSE, doc |-> record]
          /\ mgData' = [none |-> FALSE, doc |-> record]
    /\ mgPc' = "fetched"
    /\ UNCHANGED <<mgFn, mgMetadata, mgWritten>>
    /\ UNCHANGED notMergeVars

\* show_data = get_tmdb_data(...): None; `if show_data:' fails and nothing
\* is merged or written.
MergeNothingFetched ==
    /\ mgPc = "refresh"
    /\ mgFetched' = NoDict
    /\ mgData' = NoDict
    /\ mgPc' = "done"
    /\ UNCHANGED <<mgFn, mgMetadata, mgWritten>>
    /\ UNCHANGED notMergeVars

\* `if 'metadata' in tmdb_config:' fails: the record stays as fetched.
MergeNoMetadata ==
    /\ mgPc = "fetched"
    /\ mgMetadata.kind = "absent"
    /\ mgPc' = "merged"
    /\ UNCHANGED <<mgFn, mgMetadata, mgFetched, mgData, mgWritten>>
    /\ UNCHANGED notMergeVars

\* show_data.update(tmdb_config['metadata']) with a mapping.
MergeUpdate ==
    /\ mgPc = "fetched"
    /\ mgMetadata.kind = "mapping"
    /\ mgData' = [mgData EXCEPT !.doc = dict_update(@, mgMetadata.map)]
    /\ mgPc' = "merged"
    /\ UNCHANGED <<mgFn, mgMetadata, mgFetched, mgWritten>>
    /\ UNCHANGED notMergeVars

\* show_data.update(None): TypeError, which nothing catches.
MergeUpdateRaises ==
    /\ mgPc = "fetched"
    /\ mgMetadata.kind = "null"
    /\ mgPc' = "raised"
    /\ UNCHANGED <<mgFn, mgMetadata, mgFetched, mgData, mgWritten>>
    /\ UNCHANGED notMergeVars

\* json.dump(show_data, f, indent=4, sort_keys=True): the document holds
\* the dict's keys and values; a function keeps no order of its keys.
MergeDump ==
    /\ mgPc = "merged"
    /\ mgWritten' = mgData
    /\ mgPc' = "written"
    /\ UNCHANGED <<mgFn, mgMetadata, mgFetched, mgData>>
    /\ UNCHANGED notMergeVars

(***************************************************************************)
(* Name resolution without a configured tmdb_id: download_tmdb_images.py   *)
(* get_tmdb_data (lines 50-73) and utils/tmdb_utils.py                     *)
(* fetch_tmdb_media_details (lines 77-89).  A search result is             *)
(* [id, first_air_date, release_date], a date being the set of its year,   *)
(* {} when the result has no such key.                                     *)
(***************************************************************************)
\* Years of the names and of the results.
Years == {2019, 2020}

\* One result of /search/tv (first_air_date) or /search/movie
\* (release_date); TMDB leaves the date out of a result now and then.
SearchResult(type) ==
    {r \in [id : 1..MaxId, first_air_date : {{}} \cup {{y} : y \in Years},
            release_date : {{}} \cup {{y} : y \in Years}] :
        IF type = "tv" THEN r.release_date = {} ELSE r.first_air_date = {}}

\* The 'results' lists of a search response, up to n long.
SearchResults(type, n) == UNION {[1..k -> SearchResult(type)] : k \in 0..n}

\* [result for result in search_results if 'first_air_date' in result and
\*  result['first_air_date'][:4] == str(year)]
FilterByYear(search_results, year) ==
    SelectSeq(search_results, LAMBDA result : result.first_air_date = {year})

ResolveInit ==
    /\ rsFn \in {"get_tmdb_data", "fetch_tmdb_media_details"}
    /\ rsType \in {"tv", "movie"}
    /\ rsYear \in {{}, {2019}}
    /\ rsFull \in SearchResults(rsType, 1)
    /\ rsStripped \in SearchResults(rsType, MaxResults)
    /\ rsPc = "search"
    /\ rsId = {}

ResolveIdle ==
    /\ rsFn = "none"
    /\ rsType = "tv"
    /\ rsYear = {}
    /\ rsFull = <<>>
    /\ rsStripped = <<>>
    /\ rsPc = "off"
    /\ rsId = {}

\* The search by the full name has results: the first one's id is taken.
ResolveFirstSearch ==
    /\ rsPc = "search"
    /\ rsFull # <<>>
    /\ rsId' = {rsFull[1].id}
    /\ rsPc' = "resolved"
    /\ UNCHANGED <<rsFn, rsType, rsYear, rsFull, rsStripped>>
    /\ UNCHANGED notResolveVars

\* The search by the full name has none: the name is searched again with
\* its year removed.
ResolveNoResults ==
    /\ rsPc = "search"
    /\ rsFull = <<>>
    /\ rsPc' = "retry"
    /\ UNCHANGED <<rsFn, rsType, rsYear, rsFull, rsStripped, rsId>>
    /\ UNCHANGED notResolveVars

\* get_tmdb_data lines 56-71: no result, None; a name with a year keeps the
\* results whose first_air_date is of that year and takes the first, None
\* when none is left; a name without a year takes the first result.
ResolveRetryGet ==
    /\ rsPc = "retry"
    /\ rsFn = "get_tmdb_data"
    /\ LET search_results ==
               IF rsStripped # <<>> /\ rsYear # {}
               THEN FilterByYear(rsStripped, CHOOSE y \in rsYear : TRUE)
               ELSE rsStripped
       IN  IF search_results # <<>>
           THEN rsId' = {search_results[1].id} /\ rsPc' = "resolved"
           ELSE rsId' = {} /\ rsPc' = "not_found"
    /\ UNCHANGED <<rsFn, rsType, rsYear, rsFull, rsStripped>>
    /\ UNCHANGED notResolveVars

\* fetch_tmdb_media_details lines 82-88: no result, None; else the first
\* result's id.
ResolveRetryFetch ==
    /\ rsPc = "retry"
    /\ rsFn = "fetch_tmdb_media_details"
    /\ IF rsStripped # <<>>
       THEN rsId' = {rsStripped[1].id} /\ rsPc' = "resolved"
       ELSE rsId' = {} /\ rsPc' = "not_found"
    /\ UNCHANGED <<rsFn, rsType, rsYear, rsFull, rsStripped>>
    /\ UNCHANGED notResolveVars

(***************************************************************************)
(* Specifications.                                                         *)
(***************************************************************************)
RefreshNext == ShouldRefreshCall

SpecRefreshInit == RefreshInit /\ ConfigIdle /\ RetryIdle /\ OrchIdle /\ EpisodeIdle /\ FetchIdle /\ WriteIdle /\ DownloadIdle /\ ImageIdle /\ CastIdle /\ MergeIdle /\ ResolveIdle

SpecRefresh == SpecRefreshInit /\ [][RefreshNext]_vars

ConfigNext == LoadConfig \/ UpdateCreate \/ UpdateAdd \/ UpdateKeep

SpecConfigInit == ConfigInit /\ RefreshIdle /\ RetryIdle /\ OrchIdle /\ EpisodeIdle /\ FetchIdle /\ WriteIdle /\ DownloadIdle /\ ImageIdle /\ CastIdle /\ MergeIdle /\ ResolveIdle

SpecConfig == SpecConfigInit /\ [][ConfigNext]_vars

RetryNext ==
    \/ AttemptOk
    \/ Attempt429
    \/ AttemptErrorStatus
    \/ AttemptClientError
    \/ AttemptBadJson
    \/ RetriesExhausted

SpecRetryInit == RetryInit /\ RefreshIdle /\ ConfigIdle /\ OrchIdle /\ EpisodeIdle /\ FetchIdle /\ WriteIdle /\ DownloadIdle /\ ImageIdle /\ CastIdle /\ MergeIdle /\ ResolveIdle

SpecRetry == SpecRetryInit /\ [][RetryNext]_vars

OrchNext ==
    \/ Main
    \/ MovieKeep
    \/ MovieFetch
    \/ MovieImage
    \/ ShowSkip
    \/ ShowInitialFetch
    \/ ShowAllowed
    \/ ShowRefetch
    \/ ShowLoad
    \/ ShowImageTypeError
    \/ ShowImage
    \/ ShowNoSeasons
    \/ ShowSeasonSkipped
    \/ ShowSeasonPoster
    \/ ShowEpisode
    \/ ShowThumbnail
    \/ NextRun

SpecInit == OrchInit /\ RefreshIdle /\ ConfigIdle /\ RetryIdle /\ EpisodeIdle /\ FetchIdle /\ WriteIdle /\ DownloadIdle /\ ImageIdle /\ CastIdle /\ MergeIdle /\ ResolveIdle

Spec == SpecInit /\ [][OrchNext]_vars

EpisodeNext ==
    \/ EpisodeDataOk
    \/ EpisodeDataRateLimited
    \/ EpisodeDataErrorStatus
    \/ EpisodeDataRequestException
    \/ EpisodeDataSleepOver
    \/ ThumbnailRetriesExceeded
    \/ ThumbnailOk
    \/ ThumbnailNothing
    \/ ThumbnailRateLimited
    \/ ThumbnailRequestException
    \/ ThumbnailRetry

SpecEpisodeInit == EpisodeInit /\ RefreshIdle /\ ConfigIdle /\ RetryIdle /\ OrchIdle /\ FetchIdle /\ WriteIdle /\ DownloadIdle /\ ImageIdle /\ CastIdle /\ MergeIdle /\ ResolveIdle

SpecEpisode == SpecEpisodeInit /\ [][EpisodeNext]_vars

\* The call is scheduled: a step that can be taken is taken.
SpecEpisodeLive == SpecEpisode /\ WF_vars(EpisodeNext)

FetchNext ==
    \/ FetchSearch
    \/ FetchSearchNoYear
    \/ FetchDetails
    \/ GetDetails
    \/ FetchSubResource
    \/ GetSubResource

SpecFetchInit == FetchInit /\ RefreshIdle /\ ConfigIdle /\ RetryIdle /\ OrchIdle /\ EpisodeIdle /\ WriteIdle /\ DownloadIdle /\ ImageIdle /\ CastIdle /\ MergeIdle /\ ResolveIdle

SpecFetch == SpecFetchInit /\ [][FetchNext]_vars

WriteNext ==
    \/ MetadataFetch
    \/ MetadataOpen
    \/ MetadataFlush
    \/ MetadataClose
    \/ MetadataKill

SpecWriteInit == WriteInit /\ RefreshIdle /\ ConfigIdle /\ RetryIdle /\ OrchIdle /\ EpisodeIdle /\ FetchIdle /\ DownloadIdle /\ ImageIdle /\ CastIdle /\ MergeIdle /\ ResolveIdle

SpecWrite == SpecWriteInit /\ [][WriteNext]_vars

DownloadNext ==
    \/ DownloadCall
    \/ DownloadSkip
    \/ DownloadRemoveHash
    \/ DownloadRequest
    \/ DownloadOpen
    \/ DownloadWrite
    \/ DownloadStartHash
    \/ HashCompute
    \/ HashSave
    \/ DownloadHashAwaited
    \/ ProcessExit

SpecDownloadInit == DownloadInit /\ RefreshIdle /\ ConfigIdle /\ RetryIdle /\ OrchIdle /\ EpisodeIdle /\ FetchIdle /\ WriteIdle /\ ImageIdle /\ CastIdle /\ MergeIdle /\ ResolveIdle

SpecDownload == SpecDownloadInit /\ [][DownloadNext]_vars

ImageNext ==
    \/ ImageKeyMissing
    \/ ImageShowPass
    \/ ImageMoviePass
    \/ ImageMovieOverridePass

SpecImageInit == ImageInit /\ RefreshIdle /\ ConfigIdle /\ RetryIdle /\ OrchIdle /\ EpisodeIdle /\ FetchIdle /\ WriteIdle /\ DownloadIdle /\ CastIdle /\ MergeIdle /\ ResolveIdle

SpecImage == SpecImageInit /\ [][ImageNext]_vars

CastNext == CastFormatted \/ CastUnavailable

SpecCastInit == CastInit /\ RefreshIdle /\ ConfigIdle /\ RetryIdle /\ OrchIdle /\ EpisodeIdle /\ FetchIdle /\ WriteIdle /\ DownloadIdle /\ ImageIdle /\ MergeIdle /\ ResolveIdle

SpecCast == SpecCastInit /\ [][CastNext]_vars

MergeNext ==
    \/ MergeFetched
    \/ MergeNothingFetched
    \/ MergeNoMetadata
    \/ MergeUpdate
    \/ MergeUpdateRaises
    \/ MergeDump

SpecMergeInit == MergeInit /\ RefreshIdle /\ ConfigIdle /\ RetryIdle /\ OrchIdle /\ EpisodeIdle /\ FetchIdle /\ WriteIdle /\ DownloadIdle /\ ImageIdle /\ CastIdle /\ ResolveIdle

SpecMerge == SpecMergeInit /\ [][MergeNext]_vars

ResolveNext ==
    \/ ResolveFirstSearch
    \/ ResolveNoResults
    \/ ResolveRetryGet
    \/ ResolveRetryFetch

SpecResolveInit == ResolveInit /\ RefreshIdle /\ ConfigIdle /\ RetryIdle /\ OrchIdle /\ EpisodeIdle /\ FetchIdle /\ WriteIdle /\ DownloadIdle /\ ImageIdle /\ CastIdle /\ MergeIdle

SpecResolve == SpecResolveInit /\ [][ResolveNext]_vars

(***************************************************************************)
(* Claims about the orchestrator (Spec).                                   *)
(***************************************************************************)
\* The show's config lets its metadata be updated.
UpdatesAllowed == read_tmdb_config(configs["s"]).update_metadata # {FALSE}

\* The second run started right after the first one.
ImmediateSecondRun == run = 2 /\ clock = Clock0

\* A step that asks the remote service for nothing and leaves every file
\* as it is.
QuietStep == fs' = fs /\ docs' = docs /\ remoteCalled' = FALSE

C2_ExactlyOneFetch ==
    (gate = "initial" /\ pc \in {"exit", "crashed"}) => fetches = 1

\* C3: the show is skipped entirely (the loop goes on to the next show
\* with no remote call, no write and no image, season or episode pass)
\* exactly when the config's update_metadata is false (an absent key
\* counts as true) and metadata.json exists.
C3_SkipExactlyWhenDisabledAndPresent ==
    [][pc = "show_begin" =>
         ((~UpdatesAllowed /\ fs[MetadataPath("s")].exists)
            <=> (/\ pc' = "exit"
                 /\ gate' = "skipped"
                 /\ fs' = fs
                 /\ docs' = docs
                 /\ remoteCalled' = remoteCalled
                 /\ fetches' = fetches))]_vars

\* A show was skipped in the first run, and nothing was asked for.
C3_Witness ==
    /\ run = 1
    /\ gate = "skipped"
    /\ pc = "exit"
    /\ ~remoteCalled
    /\ ~UpdatesAllowed
    /\ fs[MetadataPath("s")].exists


(***************************************************************************)
(* Claims about the refresh policy (SpecRefresh).                          *)
(***************************************************************************)
\* The metadata's age as the claim counts it: now minus its modification time.
MetadataAge == rfNow - metadata_file.mtime

\* C4: whenever the metadata file exists and its age is at least 24 hours
\* (24 included), should_refresh_metadata returns true, whatever the
\* existence or modification time of the config file.
C4_TtlExpiredRefreshes ==
    (rfPc = "done" /\ metadata_file.exists /\ MetadataAge >= 24)
        => need_refresh = TRUE

\* The boundary case of C4: age exactly 24 hours, with a config file that is
\* older than the metadata (so only the TTL can ask for the refresh).
C4_Witness ==
    /\ rfPc = "done"
    /\ metadata_file.exists
    /\ MetadataAge = 24
    /\ tmdb_config_path.exists
    /\ tmdb_config_path.mtime < metadata_file.mtime
    /\ need_refresh = TRUE

\* C5: whenever both files exist and the config's modification time is
\* strictly newer than the metadata's, should_refresh_metadata returns
\* true, also when the metadata is younger than 24 hours.
C5_ConfigNewerRefreshes ==
    (/\ rfPc = "done"
     /\ metadata_file.exists
     /\ tmdb_config_path.exists
     /\ tmdb_config_path.mtime > metadata_file.mtime)
        => need_refresh = TRUE

\* The case of C5: metadata one hour old, config touched after it.
C5_Witness ==
    /\ rfPc = "done"
    /\ metadata_file.exists
    /\ MetadataAge = 1
    /\ tmdb_config_path.exists
    /\ tmdb_config_path.mtime = metadata_file.mtime + 1
    /\ need_refresh = TRUE

\* C6: when the metadata file does not exist the call returns (it reaches
\* "done" with a boolean, never an exception) and the value is true,
\* whether the config file exists or not.
C6_MissingMetadataRefreshes ==
    (rfPc = "done" /\ ~metadata_file.exists) => need_refresh = TRUE

\* The case of C6: neither file exists.
C6_Witness ==
    /\ rfPc = "done"
    /\ ~metadata_file.exists
    /\ ~tmdb_config_path.exists
    /\ need_refresh = TRUE

\* C7: should_refresh_metadata returns false exactly when the metadata
\* file exists, its age is below 24 hours, and the config file is absent
\* or its modification time is not newer than the metadata's.
C7_FalseExactlyWhenFresh ==
    rfPc = "done" =>
        (need_refresh = FALSE <=>
            /\ metadata_file.exists
            /\ MetadataAge < 24
            /\ \/ ~tmdb_config_path.exists
               \/ tmdb_config_path.mtime <= metadata_file.mtime)

\* The case of C7: equal modification times do not trigger a refresh.
C7_Witness ==
    /\ rfPc = "done"
    /\ metadata_file.exists
    /\ MetadataAge = 23
    /\ tmdb_config_path.exists
    /\ tmdb_config_path.mtime = metadata_file.mtime
    /\ need_refresh = FALSE

(***************************************************************************)
(* Claims about the config store (SpecConfig).                             *)
(***************************************************************************)
\* The on-disk config is a document that has a tmdb_id.
DiskHasId == cfgDisk.kind = "json" /\ HasKey(cfgDisk.doc, "tmdb_id")

\* C8: no call of update_tmdb_config, with whatever resolved ID, changes a
\* tmdb_id that is already set in the on-disk config document, and a call
\* made while the document has a tmdb_id writes nothing.
C8_DiskIdNeverChanges ==
    [][DiskHasId => cfgDisk' = cfgDisk]_vars

OnlyTransient ==
    \A i \in 1..Len(rqLog) : rqLog[i] \in {"429", "ClientError"}

\* C10: one call issues at most 5 HTTP requests, and a call whose every
\* attempt ended in HTTP 429 or a client/transport error ends by returning
\* None: it does not raise.
C10_RetryBudget ==
    /\ Len(rqLog) <= 5
    /\ (rqPc # "loop" /\ OnlyTransient) =>
          (rqPc = "returned" /\ rqResult = "None")

(***************************************************************************)
(* Claims about the episode fetches (SpecEpisodeLive).                     *)
(***************************************************************************)
\* C11: every episode fetch ends after a bounded number of attempts and
\* reports the resource unavailable, even when the service answers 429 to
\* every request: the call eventually returns.
C11_EpisodeFetchReturns == <>(epPc = "returned")

(***************************************************************************)
(* Claims about the entity fetch (SpecFetch).                              *)
(***************************************************************************)
\* C12: when the core-details request of fetch_tmdb_media_details is
\* unavailable, the call returns None and no cast, trailer, logo or rating
\* request is made.
C12_NoDetailsNoRecord ==
    (ftFn = "fetch_tmdb_media_details" /\ "details" \in ftFailed)
      => /\ ftPc = "returned"
         /\ ftResult = "None"
         /\ ftRequested \cap {"cast", "trailer_url", "logo_path", "rating"} = {}

\* The details request of a named entity came back None.
C12_Witness ==
    /\ ftFn = "fetch_tmdb_media_details"
    /\ "details" \in ftFailed
    /\ "search" \in ftRequested
    /\ ftPc = "returned"
    /\ ftResult = "None"

\* C13: when the fetch of one sub-resource (cast, trailer, logo, rating)
\* fails, the other sub-resources are still fetched and the record is
\* returned with only the failed fields absent or empty.
C13_SubResourceFailureIsolated ==
    (ftPc \in {"returned", "raised"} /\ "cast" \in ftRequested)
      => /\ ftResult = "record"
         /\ SubResourceSet(ftFn) \subseteq ftRequested
         /\ \A r \in SubResourceSet(ftFn) :
               IF r \in ftFailed
               THEN media_details[r] \in {"absent", "empty", "None"}
               ELSE media_details[r] = "value"

(***************************************************************************)
(* Claims about the orchestrator's failure handling (Spec).                *)
(***************************************************************************)
\* C14: a failure confined to one entity never ends the run: after a
\* show's metadata fetch yielded nothing the script goes on with what is
\* left of the listing.
C14_EntityFailureNeverEndsRun ==
    [][(pc = "show_image" /\ show_data.none) => pc' # "crashed"]_vars

(***************************************************************************)
(* Claims about the metadata write (SpecWrite).                            *)
(***************************************************************************)
\* C15: metadata.json is overwritten only after a successful fetch and
\* never partially: after a failed fetch it is what it was, and whenever
\* the run may be killed it holds the whole old or the whole new document.
C15_MetadataWholeOrUntouched ==
    /\ mwFetched \in {"None", "error_body"} => mwFile = mwOld
    /\ mwFile \in {mwOld, WholeFile(mwData)}

(***************************************************************************)
(* Claims about the image download (SpecDownload).                         *)
(***************************************************************************)
\* C16: in every download that writes the image, the .blurhash that was
\* there when the download began has been removed before the first byte of
\* the new image is written.
C16_HashRemovedBeforeWrite ==
    [][dlFiles'[FilePath] # dlFiles[FilePath] => dlHashGone]_vars

\* C17: in every reachable state, a .blurhash that exists was computed
\* from the image content that is stored at the path now.
C17_HashMatchesImage ==
    dlFiles[BlurhashPath].exists => dlFiles[BlurhashPath] = dlFiles[FilePath]

\* C18: a call with force_download false on a path that exists is a
\* no-op: it returns without an HTTP request and leaves the image and its
\* .blurhash as they are.
C18_UnforcedExistingIsNoOp ==
    [][(dlPc = "check" /\ dlPc' # dlPc
           /\ dlFiles[FilePath].exists /\ ~dlForce)
          => (/\ dlPc' = "idle"
              /\ dlFiles' = dlFiles
              /\ dlRequests' = dlRequests)]_vars

\* An unforced call on an image with its hash has returned; nothing was
\* requested.
C18_Witness ==
    /\ dlCalls = 1
    /\ dlPc = "idle"
    /\ ~dlForce
    /\ dlRequests = 0
    /\ IsWhole(dlFiles[FilePath])
    /\ dlFiles[BlurhashPath].exists

\* C19: when the request is answered with a status other than 200, the
\* call writes nothing to the path and returns without raising.
C19_FailedStatusWritesNothing ==
    [][(dlPc = "request" /\ dlStatus' = "404")
          => (/\ dlPc' = "idle"
              /\ dlFiles'[FilePath] = dlFiles[FilePath])]_vars

\* A forced call on an existing image was answered 404 and has returned.
C19_Witness ==
    /\ dlCalls = 1
    /\ dlForce
    /\ dlStatus = "404"
    /\ dlPc = "idle"
    /\ IsWhole(dlFiles[FilePath])

\* C20: the image write is atomic: whoever reads the path while a download
\* runs finds no file or a whole image, never an empty or partial one.
C20_ImageNeverPartial ==
    dlFiles[FilePath].exists => IsWhole(dlFiles[FilePath])

(***************************************************************************)
(* Claims about the image pass (SpecImage).                                *)
(***************************************************************************)
\* The URL the pass should download for the field: the one built from the
\* override when the config sets one, else the one built from the record.
EffectiveUrl ==
    IF imOverride # {}
    THEN TmdbImageUrl(CHOOSE p \in imOverride : TRUE)
    ELSE TmdbImageUrl(CHOOSE p \in imRemote : TRUE)

\* The file the field is kept in, by the naming convention.
ConventionalFile ==
    IF imFn = "process_shows"
    THEN ShowPosterFile(get_file_extension(EffectiveUrl))
    ELSE MoviePosterFile(get_file_extension(EffectiveUrl))

\* C21: image change detection.  When the effective URL of a field is the
\* one recorded in the previously loaded metadata and the file exists, the
\* pass downloads nothing; when the effective URL differs from the recorded
\* one, the pass makes a forced download of the effective URL to the file.
C21_DownloadExactlyOnUrlChange ==
    [][(imPc = "loop" /\ imPc' # imPc /\ imRemote # {} /\ imExisting # {})
        => LET recorded == TmdbImageUrl(CHOOSE p \in imExisting : TRUE)
           IN  /\ (EffectiveUrl = recorded /\ imFiles[ConventionalFile].exists)
                     => (imCall' = {} /\ imFiles' = imFiles)
               /\ EffectiveUrl # recorded
                     => imCall' = {[url |-> EffectiveUrl,
                                    path |-> ConventionalFile,
                                    force |-> TRUE]}]_vars

\* C22: override precedence.  Whenever the config sets override_poster, a
\* pass over the field ends without an error and the download it makes, if
\* any, is of the URL built from the override, into the entity's
\* conventional file.
C22_OverrideIsWhatIsDownloaded ==
    (imPc \in {"done", "crashed"} /\ imOverride # {} /\ imRemote # {})
        => /\ imPc = "done"
           /\ \A c \in imCall :
                 /\ c.url = TmdbImageUrl(OverridePath)
                 /\ c.path = ConventionalFile

(***************************************************************************)
(* Claims about the top-level driver and the show pass (Spec).             *)
(***************************************************************************)
\* C23: the driver runs the two passes concurrently.  While the movie pass
\* is under way and a show directory waits to be processed, the show pass
\* can take its first step: it does not wait for the movie pass to finish.
C23_ShowPassDoesNotWait ==
    (pc \in {"movie_begin", "movie_image"} /\ fs[Path(SHOWS_DIR, "s")].exists)
        => ENABLED (ShowSkip \/ ShowInitialFetch \/ ShowAllowed)

\* The season directory and the files the script keeps in it.
SeasonPaths ==
    {Path(ShowDir, "Season 1"), SeasonPosterPath}
    \cup {EpisodeMetadataPath(n) : n \in 1..MaxEpisodes}
    \cup {EpisodeThumbnailPath(n) : n \in 1..MaxEpisodes}

\* C24: no run creates a season or episode directory.  While the `Season
\* <N>' directory of a season is absent, no step creates it, no step writes
\* a poster, an episode document or a thumbnail for it, and the script does
\* not enter the episode loop, where the episode requests are made.
C24_AbsentSeasonIsSkipped ==
    [][~fs[Path(ShowDir, "Season 1")].exists
        => /\ \A p \in SeasonPaths : fs'[p] = fs[p]
           /\ pc' \notin {"show_episode", "show_thumbnail"}
           /\ (pc = "show_season" => remoteCalled' = remoteCalled)]_vars

\* A show pass that went over the seasons of a record listing a season
\* whose directory is not there.
C24_Witness ==
    /\ pc = "exit"
    /\ ~show_data.none
    /\ show_data.seasons > 0
    /\ ~fs[Path(ShowDir, "Season 1")].exists
    /\ fs[Path(SHOWS_DIR, "s")].exists

\* C25: within one run for one entity the metadata document is written,
\* then the config store's update is called with the resolved id, and only
\* then does the image pass start.  So when the image pass of a show starts
\* after its metadata was fetched and written, tmdb.config exists and
\* carries a tmdb_id.
C25_ConfigUpdatedBeforeImagePass ==
    (pc = "show_image" /\ show_need_refresh /\ ~show_data.none
        /\ docs["s"] = show_data)
        => /\ configs["s"].kind = "json"
           /\ HasKey(configs["s"].doc, "tmdb_id")

\* C30: TTL refresh of images.  In a run over an existing season directory
\* a season poster that exists and is older than 1 day, and an episode
\* thumbnail that exists and is older than 3 days, are each written anew
\* from the image served for them (no request of the step failing),
\* whatever the step before decided about the episode's metadata.
C30_StaleImagesAreReplaced ==
    [][/\ (/\ pc = "show_season"
           /\ pc' = "show_episode"
           /\ fs[SeasonPosterPath].exists
           /\ Age(fs, SeasonPosterPath, clock) > timedelta_days(1)
           /\ mishaps' = mishaps)
          => fs'[SeasonPosterPath].gen > fs[SeasonPosterPath].gen
       /\ (/\ pc = "show_thumbnail"
           /\ pc' # pc
           /\ fs[EpisodeThumbnailPath(episode_number)].exists
           /\ Age(fs, EpisodeThumbnailPath(episode_number), clock)
                 > timedelta_days(3)
           /\ mishaps' = mishaps)
          => fs'[EpisodeThumbnailPath(episode_number)].gen
                > fs[EpisodeThumbnailPath(episode_number)].gen]_vars

(***************************************************************************)
(* Claims about the returned record (SpecFetch).                           *)
(***************************************************************************)
\* C26: every record the entity fetch returns, for TV and for movies,
\* carries last_updated and a cast that is a list: the cast found, or the
\* empty list when none could be fetched; cast is never absent or null.
C26_RecordHasCastList ==
    ftResult = "record"
        => /\ media_details.last_updated = "value"
           /\ media_details.cast \in {"value", "empty"}

(***************************************************************************)
(* Claims about the cast details (SpecCast).                               *)
(***************************************************************************)
\* The positions of the cast whose member is typed 'Recurring'.
RecurringPositions ==
    {i \in DOMAIN castResult.cast : castResult.cast[i].type = "Recurring"}

\* C27: cast classification.  Every member of a TV cast is typed 'Season
\* Regular' iff its total_episode_count is at least 8, 'Recurring' iff it
\* is from 3 to 7, and 'Guest Star' otherwise (below 3, zero, negative or
\* missing); recurring_cast holds exactly the members typed 'Recurring', in
\* the order of the cast.
C27_CastClassified ==
    (castPc = "returned" /\ ~castResult.none)
        => /\ DOMAIN castResult.cast = DOMAIN credits_data
           /\ \A i \in DOMAIN credits_data :
                 LET count == credits_data[i]
                     type == castResult.cast[i].type
                 IN  /\ castResult.cast[i].id = i
                     /\ type = "Season Regular"
                            <=> \E n \in count : n >= 8
                     /\ type = "Recurring"
                            <=> \E n \in count : n >= 3 /\ n <= 7
                     /\ type = "Guest Star"
                            <=> \A n \in count : n < 3
           /\ Len(castResult.recurring_cast) = Cardinality(RecurringPositions)
           /\ \A k \in DOMAIN castResult.recurring_cast :
                 \E i \in RecurringPositions :
                    /\ Cardinality({j \in RecurringPositions : j <= i}) = k
                    /\ castResult.recurring_cast[k] = castResult.cast[i]

\* A cast with a season regular, a recurring member and a guest was
\* classified.
C27_Witness ==
    /\ castPc = "returned"
    /\ ~castResult.none
    /\ Len(castResult.recurring_cast) > 0
    /\ \E i, j \in DOMAIN castResult.cast :
          /\ castResult.cast[i].type = "Season Regular"
          /\ castResult.cast[j].type = "Guest Star"

(***************************************************************************)
(* Claims about the hash computations (SpecDownload).                      *)
(***************************************************************************)
\* C28: every hash computation started for a downloaded image has ended,
\* with a hash saved or with a failure that is only printed, before the
\* process exits; none is running or pending when the run is over; and no
\* step of a hash computation changes the image file.
C28_HashEndsBeforeExit ==
    [][/\ dlPc' = "exited"
            => \A t \in 1..MaxDownloads : dlThreads'[t].pc \in {"none", "done"}
       /\ dlThreads' # dlThreads => dlFiles'[FilePath] = dlFiles[FilePath]]_vars

\* The script has exited after a download whose hash computation failed:
\* the image is there, whole.
C28_Witness ==
    /\ dlPc = "exited"
    /\ dlFn = "download_image"
    /\ dlThreads[1].pc = "done"
    /\ dlFiles[BlurhashPath] = EmptyHashFile
    /\ IsWhole(dlFiles[FilePath])

\* C29: the hash computation is off-loaded.  No download operation waits
\* for a hash computation: while one is running, the operation that
\* started it has returned and the next download can start.
C29_HashNeverBlocksDownload ==
    (\E t \in 1..MaxDownloads : dlThreads[t].pc \in {"started", "computed"})
        => /\ dlPc # "await"
           /\ dlCalls < MaxDownloads => ENABLED DownloadCall

(***************************************************************************)
(* C31: for each of backdrop_path, poster_path and logo_path present in an  *)
(* entity's metadata, a run downloads the image whenever its file is       *)
(* missing, also when the metadata was not due for refresh in that run;    *)
(* for shows and for movies.  Stated on the step that ends the entity's    *)
(* image handling in a run in which no request has failed: every image the *)
(* entity's metadata names is then on disk.                                *)
(***************************************************************************)
C31_MissingImageIsDownloaded ==
    [][/\ (/\ pc \in {"movie_begin", "movie_image"}
           /\ pc' \notin {"movie_begin", "movie_image", "crashed"}
           /\ mishaps' = 0)
          => \A k \in docs'["m"].keys \cap AllImageKeys :
                fs'[MovieImagePath(k)].exists
       /\ (/\ pc = "show_image"
           /\ pc' = "show_season"
           /\ mishaps' = 0)
          => \A k \in show_data'.keys \cap AllImageKeys :
                fs'[ShowImagePath(k)].exists]_vars

(***************************************************************************)
(* C32: the metadata document written on a refresh equals the fetched      *)
(* record with every key of the config's `metadata' mapping set to the     *)
(* config's value and every other fetched key unchanged; applying the      *)
(* merge twice gives the same document as applying it once.                *)
(***************************************************************************)
\* The overrides in force: those of the mapping, none without 'metadata'.
OverridesOf(metadata) == IF metadata.kind = "mapping" THEN metadata.map ELSE <<>>

C32_OverrideMerge ==
    mgPc = "written" =>
        LET written == mgWritten.doc
            fetched == mgFetched.doc
            overrides == OverridesOf(mgMetadata)
        IN  /\ ~mgWritten.none
            /\ DOMAIN written = DOMAIN fetched \cup DOMAIN overrides
            /\ \A k \in DOMAIN overrides : written[k] = overrides[k]
            /\ \A k \in DOMAIN fetched \ DOMAIN overrides :
                  written[k] = fetched[k]
            /\ dict_update(written, overrides) = written

\* A document was written in which one fetched key was replaced, one was
\* kept and one key was added by the config.
C32_Witness ==
    /\ mgPc = "written"
    /\ mgMetadata.kind = "mapping"
    /\ DOMAIN mgFetched.doc = RecordKeys
    /\ DOMAIN mgMetadata.map = {"name", "custom_field"}
    /\ mgFetched.doc["name"] # mgMetadata.map["name"]
    /\ mgWritten.doc["name"] = "custom"
    /\ mgWritten.doc["overview"] = "remote"
    /\ mgWritten.doc["custom_field"] = "custom"

(***************************************************************************)
(* C33: with no tmdb_id configured, no result of the full-name search and  *)
(* a `(YYYY)' in the name, the ID resolved from the year-stripped search   *)
(* is that of the first result whose air or release year equals YYYY, and  *)
(* the outcome is not-found when there is none; for TV shows and movies.   *)
(***************************************************************************)
\* The year a result was first aired (a show) or released (a movie).
YearOf(result) == result.first_air_date \cup result.release_date

C33_ResolvedByYear ==
    (/\ rsPc \in {"resolved", "not_found"}
     /\ rsFull = <<>>
     /\ rsYear # {})
    => LET ofYear == SelectSeq(rsStripped, LAMBDA r : YearOf(r) = rsYear)
       IN  IF ofYear = <<>>
           THEN rsPc = "not_found" /\ rsId = {}
           ELSE rsPc = "resolved" /\ rsId = {ofYear[1].id}

(***************************************************************************)
(* C34: within one make_tmdb_api_request call, after an HTTP 429 the       *)
(* client sleeps for the Retry-After header value (1 time unit on the      *)
(* first attempt when the header is absent) and retries, and the sleep     *)
(* before each successive retry of the same call, after a 429 or a         *)
(* transport error, is twice the previous one.                             *)
(***************************************************************************)
C34_BackoffDoubles ==
    \A i \in 1..Len(rqSleeps) :
        /\ (rqLog[i] = "429" /\ rqHeaders[i].kind = "seconds")
              => rqSleeps[i] = rqHeaders[i].seconds
        /\ (i = 1 /\ rqLog[1] = "429" /\ rqHeaders[1].kind = "absent")
              => rqSleeps[1] = 1
        /\ i > 1 => rqSleeps[i] = 2 * rqSleeps[i - 1]

(***************************************************************************)
(* C35: a permanent remote error (a 4xx response other than 429, or a      *)
(* malformed response body) on a remote call is reported to the caller as  *)
(* not-found/absent with no exception propagating.  Stated for             *)
(* make_tmdb_api_request: a call whose last request was answered with an   *)
(* error status or with a body that does not parse has returned None.      *)
(***************************************************************************)
C35_PermanentErrorIsAbsent ==
    (rqLog # <<>> /\ rqLog[Len(rqLog)] \in {"error_status", "bad_json"})
    => (rqPc = "returned" /\ rqResult = "None")

(***************************************************************************)
(* C36: for every combination of metadata/config file existence,           *)
(* modification times and config content (an existing config file that    *)
(* parses to an empty mapping included), the refresh decisions computed    *)
(* inline by process_shows and by process_movies equal the result of       *)
(* should_refresh_metadata on the same files.                              *)
(***************************************************************************)
C36_InlineDecisionsAgree ==
    /\ pc = "movie_begin" =>
          (MovieRefreshDecision(fs, clock)
              <=> should_refresh_metadata(fs[MetadataPath("m")],
                                          fs[ConfigPath("m")], clock))
    /\ pc = "show_refresh" =>
          (ShowRefreshDecision(fs, read_tmdb_config(configs["s"]), clock)
              <=> should_refresh_metadata(fs[MetadataPath("s")],
                                          fs[ConfigPath("s")], clock))

(***************************************************************************)
(* C37: while a run processes entity E, every file it creates, overwrites  *)
(* or deletes lies inside E's own directory, for every config content,     *)
(* image overrides included.  Stated for the image pass: a file that the   *)
(* pass changes is in the directory of the entity being processed.         *)
(***************************************************************************)
\* The directory of the entity the pass is about.
OwnDirectory ==
    IF imFn = "process_shows" THEN "/var/www/html/tv/s"
    ELSE "/var/www/html/movies/m"

C37_WritesStayInEntityDir ==
    [][\A f \in ImageFiles :
          imFiles'[f] # imFiles[f] => f.dir = OwnDirectory]_vars

(***************************************************************************)
(* C38: after a forced download onto an existing image whose fetch returns *)
(* a non-success status, the old image bytes are still in place but the    *)
(* sibling .blurhash that existed before the call has been deleted and is  *)
(* not regenerated by that call.  Stated on the step in which the request  *)
(* of such a call is answered: the call returns, the image is as it was,   *)
(* the call's removal of the .blurhash has succeeded and the call has      *)
(* started no hash computation.                                            *)
(***************************************************************************)
C38_FailedForcedDownload ==
    [][(/\ dlPc = "request"
        /\ dlForce
        /\ dlFiles[FilePath].exists
        /\ dlStatus' = "404")
       => (/\ dlPc' = "idle"
           /\ dlFiles'[FilePath] = dlFiles[FilePath]
           /\ dlHashGone
           /\ dlThreads'[dlCalls] = NoThread)]_vars

=============================================================================
